---- MODULE Spec2Model ----
(***************************************************************************)
(* The in-memory search engine of unitymind (package search, src/main.go   *)
(* lines 365-691): document store, inverted index, BM25-lite scoring,      *)
(* excerpt extraction and the JSON cache file.                             *)
(*                                                                         *)
(* Text is a sequence of runes, each a one-character string; a rune is one *)
(* byte long unless it is listed in WideRunes.                             *)
(* A float64 is a fixed-point integer with One units per 1.0, or NaN;      *)
(* quotients round toward zero and ln is tabulated to the same precision,  *)
(* so signs, NaN and exact ties are those of the code while scores closer  *)
(* than 1/One are not told apart.  A Go map is a function on its keys;     *)
(* ranging over it may visit them in any order.                            *)
(***************************************************************************)
EXTENDS Integers, Sequences, FiniteSets, TLC

\* ------------------------------------------------------------------ bounds

\* AddDoc calls on one engine since NewEngine (postings only ever grow).
MaxUpserts == 3

\* runes of a text handed to tokenize by itself
MaxTextLen == 5

\* windows beyond the first that the longest body handed to extractExcerpt
\* by itself reaches
MaxWindows == 4

\* files to index under one offline documentation path
MaxPages == 2

\* ------------------------------------------------------------------- text

UpperRunes ==
    <<"A","B","C","D","E","F","G","H","I","J","K","L","M",
      "N","O","P","Q","R","S","T","U","V","W","X","Y","Z">>

LowerRunes ==
    <<"a","b","c","d","e","f","g","h","i","j","k","l","m",
      "n","o","p","q","r","s","t","u","v","w","x","y","z">>

DigitRunes == {"0","1","2","3","4","5","6","7","8","9"}

Range(s) == {s[i] : i \in DOMAIN s}

UpperSet == Range(UpperRunes)

\* letters outside ASCII (lower case): two bytes each in UTF-8
WideRunes == {"é"}

LetterSet == Range(UpperRunes) \cup Range(LowerRunes) \cup WideRunes

\* the bytes one rune takes in a Go string
RuneLen(r) == IF r \in WideRunes THEN 2 ELSE 1

\* len(s) of a Go string: its length in bytes
RECURSIVE ByteLen(_)
ByteLen(s) == IF Len(s) = 0 THEN 0 ELSE RuneLen(Head(s)) + ByteLen(Tail(s))

\* the lower-case rune of each upper-case rune
LowerOf ==
    [r \in UpperSet |->
        LowerRunes[CHOOSE i \in DOMAIN UpperRunes : UpperRunes[i] = r]]

\* unicode.IsLetter / unicode.IsDigit on the runes the model uses
IsLetter(r) == r \in LetterSet

IsDigit(r) == r \in DigitRunes

\* strings.ToLower, rune by rune
ToLowerRune(r) == IF r \in UpperSet THEN LowerOf[r] ELSE r

ToLower(text) == [i \in DOMAIN text |-> ToLowerRune(text[i])]

\* the stopWords map literal of tokenize
stopWords == {
    <<"t","h","e">>, <<"a">>, <<"a","n">>, <<"i","s">>, <<"i","n">>,
    <<"t","o">>, <<"o","f">>, <<"a","n","d">>, <<"o","r">>, <<"f","o","r">>,
    <<"o","n">>, <<"w","i","t","h">>, <<"t","h","i","s">>,
    <<"t","h","a","t">>, <<"i","t">>, <<"b","e">>, <<"a","s">>, <<"a","t">>,
    <<"b","y">>, <<"w","e">>, <<"h","o","w">>, <<"d","o">>, <<"i">>,
    <<"y","o","u">>, <<"c","a","n">>, <<"w","h","a","t">>,
    <<"f","r","o","m">>, <<"a","r","e">>, <<"u","s","e">>,
    <<"u","s","e","d">> }

\* the check made at both flush points of tokenize: current.Len() >= 2, a
\* length in bytes, and the run is no stop word
KeepRun(current) == ByteLen(current) >= 2 /\ current \notin stopWords

\* the index of the last rune of the block of letters and digits that
\* starts at lower[i]
RunEnd(lower, i) ==
    LET stops == {k \in i..Len(lower) :
                     ~(IsLetter(lower[k]) \/ IsDigit(lower[k]))}
    IN IF stops = {} THEN Len(lower)
       ELSE (CHOOSE k \in stops : \A j \in stops : k <= j) - 1

\* tokenize without the current.Reset() after a run
RECURSIVE TokenizeFrom_NoReset(_, _, _, _)
TokenizeFrom_NoReset(lower, i, current, tokens) ==
    IF i > Len(lower)
    THEN IF KeepRun(current) THEN Append(tokens, current) ELSE tokens
    ELSE IF IsLetter(lower[i]) \/ IsDigit(lower[i])
         THEN LET j == RunEnd(lower, i)
              IN TokenizeFrom_NoReset(lower, j + 1,
                     current \o SubSeq(lower, i, j), tokens)
         ELSE TokenizeFrom_NoReset(lower, i + 1, current,
                  IF KeepRun(current) THEN Append(tokens, current) ELSE tokens)

\* the for-range loop of tokenize from rune i on, then the flush after it.
\* The iterations over a block of letters and digits, each a
\* current.WriteRune(r), are taken in one step.
RECURSIVE TokenizeFrom(_, _, _, _)
TokenizeFrom(lower, i, current, tokens) ==
    IF i > Len(lower)
    THEN IF KeepRun(current) THEN Append(tokens, current) ELSE tokens
    ELSE IF IsLetter(lower[i]) \/ IsDigit(lower[i])
         THEN LET j == RunEnd(lower, i)
              IN TokenizeFrom(lower, j + 1, current \o SubSeq(lower, i, j),
                              tokens)
         ELSE TokenizeFrom(lower, i + 1, <<>>,
                  IF KeepRun(current) THEN Append(tokens, current) ELSE tokens)

tokenize(text) == TokenizeFrom(ToLower(text), 1, <<>>, <<>>)

\* strings.Join(elems, sep)
RECURSIVE Join(_, _)
Join(elems, sep) ==
    IF Len(elems) = 0 THEN <<>>
    ELSE IF Len(elems) = 1 THEN elems[1]
    ELSE elems[1] \o sep \o Join(Tail(elems), sep)

\* strings.HasPrefix(s, prefix)
HasPrefix(s, prefix) ==
    Len(s) >= Len(prefix) /\ SubSeq(s, 1, Len(prefix)) = prefix

\* strings.Index(s, substr) as a 0-based offset, -1 when absent
IndexOf(s, substr) ==
    LET hits == {i \in 0..(Len(s) - Len(substr)) :
                    SubSeq(s, i + 1, i + Len(substr)) = substr}
    IN IF hits = {} THEN -1 ELSE CHOOSE i \in hits : \A j \in hits : i <= j

\* strings.Contains(s, substr)
Contains(s, substr) == IndexOf(s, substr) >= 0

SP == <<" ">>

\* ---------------------------------------------------------------- float64

\* 1.0 in fixed-point units
One == 100 * 100

\* A float64 is a finite fixed-point value or NaN (0/0).  No operation of
\* the engine produces an infinity that reaches a score.
Float(v) == [nan |-> FALSE, v |-> v]

NaN == [nan |-> TRUE, v |-> 0]

FAdd(x, y) == IF x.nan \/ y.nan THEN NaN ELSE Float(x.v + y.v)

\* x > y: false when either side is NaN
FGt(x, y) == ~x.nan /\ ~y.nan /\ x.v > y.v

\* integer quotient rounded toward zero
TruncDiv(a, d) == IF a >= 0 THEN a \div d ELSE -((-a) \div d)

\* x / y for y > 0
FDiv(x, y) == IF x.nan \/ y.nan THEN NaN ELSE Float(TruncDiv(x.v * One, y.v))

\* round(ln(n) * One) for n = 1..40
LnTable ==
    <<0, 6931, 10986, 13863, 16094, 17918, 19459, 20794,
      21972, 23026, 23979, 24849, 25649, 26391, 27081, 27726,
      28332, 28904, 29444, 29957, 30445, 30910, 31355, 31781,
      32189, 32581, 32958, 33322, 33673, 34012, 34340, 34657,
      34965, 35264, 35553, 35835, 36109, 36376, 36636, 36889>>

\* math.Log(num / den) for integers num, den in 1..40
Log(num, den) == LnTable[num] - LnTable[den]

\* ----------------------------------------------------------------- engine

\* type Doc; Tags nil and Tags empty are both <<>>
Doc(id, title, url, content, tags) ==
    [ID |-> id, Title |-> title, URL |-> url, Content |-> content, Tags |-> tags]

\* type Result
Result(title, url, excerpt, score) ==
    [Title |-> title, URL |-> url, Excerpt |-> excerpt, Score |-> score]

\* NewEngine(): no documents, an empty index map (a function on no terms)
EmptyEngine == [docs |-> <<>>, index |-> <<>>]

\* e.index[tok] of a Go map: the zero value (nil slice) for a missing key
Postings(idx, tok) == IF tok \in DOMAIN idx THEN idx[tok] ELSE <<>>

\* e.index[tok] = append(e.index[tok], i)
AppendPosting(idx, tok, i) ==
    [t \in DOMAIN idx \cup {tok} |->
        IF t = tok THEN Append(Postings(idx, tok), i) ELSE idx[t]]

\* the loop of reindexDoc over tokens[k..], with its seen set
RECURSIVE ReindexFrom(_, _, _, _, _)
ReindexFrom(idx, tokens, k, seen, i) ==
    IF k > Len(tokens) THEN idx
    ELSE IF tokens[k] \in seen
         THEN ReindexFrom(idx, tokens, k + 1, seen, i)
         ELSE ReindexFrom(AppendPosting(idx, tokens[k], i), tokens, k + 1,
                          seen \cup {tokens[k]}, i)

\* the text reindexDoc tokenizes
Combined(doc) == doc.Title \o SP \o doc.Content \o SP \o Join(doc.Tags, SP)

\* reindexDoc(i, doc) on index map idx; i is the 0-based slot
reindexDoc(idx, i, doc) == ReindexFrom(idx, tokenize(Combined(doc)), 1, {}, i)

\* the 0-based slot of the first stored document with this URL, -1 if none
SlotOf(ds, url) ==
    LET hits == {i \in 0..(Len(ds) - 1) : ds[i + 1].URL = url}
    IN IF hits = {} THEN -1 ELSE CHOOSE i \in hits : \A j \in hits : i <= j

\* AddDoc without the "Deduplicate by URL" loop: always appends
AddDocTo_NoDedup(e, doc) ==
    [docs |-> Append(e.docs, doc),
     index |-> reindexDoc(e.index, Len(e.docs), doc)]

\* AddDoc that drops the stored document and appends the new one, where
\* AddDoc overwrites in place
AddDocTo_MoveLast(e, doc) ==
    LET i == SlotOf(e.docs, doc.URL)
        kept == IF i >= 0
                THEN SubSeq(e.docs, 1, i) \o SubSeq(e.docs, i + 2, Len(e.docs))
                ELSE e.docs
    IN [docs |-> Append(kept, doc),
        index |-> reindexDoc(e.index, Len(kept), doc)]

\* AddDoc(doc) on engine e: replace in place at the slot with the same URL,
\* else append; reindex that slot either way
AddDocTo(e, doc) ==
    LET i == SlotOf(e.docs, doc.URL) IN
    IF i >= 0
    THEN [docs |-> [e.docs EXCEPT ![i + 1] = doc],
          index |-> reindexDoc(e.index, i, doc)]
    ELSE [docs |-> Append(e.docs, doc),
          index |-> reindexDoc(e.index, Len(e.docs), doc)]

\* the Doc that AddResults builds from a Result
DocOfResult(r) == Doc(r.URL, r.Title, r.URL, r.Excerpt, <<>>)

\* a loop calling AddDoc for each element, in order
RECURSIVE AddDocsTo(_, _)
AddDocsTo(e, ds) ==
    IF Len(ds) = 0 THEN e ELSE AddDocsTo(AddDocTo(e, Head(ds)), Tail(ds))

\* AddResults(results) on engine e
AddResultsTo(e, results) ==
    AddDocsTo(e, [k \in DOMAIN results |-> DocOfResult(results[k])])

\* DocCount()
DocCount(e) == Len(e.docs)

\* ----------------------------------------------------------------- scorer

\* k1 := 1.5 and b := 0.75 of Search, as fractions
k1Num == 3
k1Den == 2
bNum == 3
bDen == 4

\* the boost arguments of scoreToken, in tenths: 1.0 exact, 0.7 prefix
boostExact == 10
boostPrefix == 7

\* scores[idx] += 2.0 of the title loop
titleBoost == 2

\* countOccurrences(tok, text): non-overlapping matches in the lowered text,
\* scanning from 0-based offset from
RECURSIVE CountFrom(_, _, _)
CountFrom(tok, lower, from) ==
    LET i == IndexOf(SubSeq(lower, from + 1, Len(lower)), tok) IN
    IF i < 0 THEN 0 ELSE 1 + CountFrom(tok, lower, from + i + Len(tok))

countOccurrences(tok, text) == CountFrom(tok, ToLower(text), 0)

\* len(tokenize(doc.Content + " " + doc.Title))
DocLen(doc) == Len(tokenize(doc.Content \o SP \o doc.Title))

RECURSIVE TotalLen(_)
TotalLen(ds) == IF Len(ds) = 0 THEN 0 ELSE DocLen(Head(ds)) + TotalLen(Tail(ds))

\* avgDocLen() as the fraction num/den: 100 on an empty engine, else
\* float64(total) / float64(len(e.docs))
avgDocLen(e) ==
    IF Len(e.docs) = 0 THEN [num |-> 100, den |-> 1]
    ELSE [num |-> TotalLen(e.docs), den |-> Len(e.docs)]

\* idf := math.Log((N-df+0.5)/(df+0.5) + 1), which is ln((2N+2)/(2df+1))
Idf(N, df) == Log(2 * N + 2, 2 * df + 1)

\* tfNorm := tf*(k1+1) / (tf + k1*(1-b+b*docLen/avgLen)).  docLen/avgLen is
\* 0/0 = NaN when avgLen is 0 and docLen is 0, +Inf when only avgLen is 0
\* (then tfNorm is tf*2.5/Inf = 0).
TfNorm(tf, docLen, avgLen) ==
    IF avgLen.num = 0
    THEN IF docLen = 0 THEN NaN ELSE Float(0)
    ELSE LET num == tf * (k1Num + k1Den) * bDen * avgLen.num
             den == tf * k1Den * bDen * avgLen.num
                    + k1Num * ((bDen - bNum) * avgLen.num
                               + bNum * docLen * avgLen.den)
         IN Float(TruncDiv(num * One, den))

\* idf * tfNorm * boost
Contribution(idf, tfNorm, boost) ==
    IF tfNorm.nan THEN NaN
    ELSE Float(TruncDiv(TruncDiv(idf * tfNorm.v, One) * boost, 10))

\* scores[idx] += x on a Go map: a missing key reads 0 and is created
AddScore(scores, i, x) ==
    [j \in DOMAIN scores \cup {i} |->
        IF j = i
        THEN FAdd(IF i \in DOMAIN scores THEN scores[i] ELSE Float(0), x)
        ELSE scores[j]]

\* the loop of scoreToken over postings[k..]
RECURSIVE ScorePostings(_, _, _, _, _, _, _, _)
ScorePostings(e, tok, postings, k, idf, avgLen, boost, scores) ==
    IF k > Len(postings) THEN scores
    ELSE LET doc == e.docs[postings[k] + 1]
             text == doc.Content \o SP \o doc.Title
             tfNorm == TfNorm(countOccurrences(tok, text), DocLen(doc), avgLen)
         IN ScorePostings(e, tok, postings, k + 1, idf, avgLen, boost,
                AddScore(scores, postings[k], Contribution(idf, tfNorm, boost)))

\* scoreToken(tok, ..., scores, N, avgLen, k1, b, boost)
scoreToken(e, tok, scores, avgLen, boost) ==
    IF tok \notin DOMAIN e.index THEN scores
    ELSE LET postings == e.index[tok]
         IN ScorePostings(e, tok, postings, 1,
                Idf(Len(e.docs), Len(postings)), avgLen, boost, scores)

\* what one pass of the loop of scoreToken for term tok adds to the score
\* of slot i: idf * tfNorm * boost
SlotContribution(e, tok, i, boost) ==
    LET doc == e.docs[i + 1]
        text == doc.Content \o SP \o doc.Title
    IN Contribution(Idf(Len(e.docs), Len(Postings(e.index, tok))),
                    TfNorm(countOccurrences(tok, text), DocLen(doc),
                           avgDocLen(e)),
                    boost)

\* the indexed terms the prefix loop of Search scores for query token tok
PrefixTerms(e, tok) ==
    {u \in DOMAIN e.index : u # tok /\ HasPrefix(u, tok) /\ ByteLen(tok) >= 3}

\* the prefix loop over a set of terms; map iteration order only permutes
\* the additions
RECURSIVE ScorePrefixes(_, _, _, _)
ScorePrefixes(e, terms, scores, avgLen) ==
    IF terms = {} THEN scores
    ELSE LET u == CHOOSE t \in terms : TRUE
         IN ScorePrefixes(e, terms \ {u},
                scoreToken(e, u, scores, avgLen, boostPrefix), avgLen)

\* the first loop of Search over tokens[k..]: exact match, then prefixes
RECURSIVE ScoreTokens(_, _, _, _, _)
ScoreTokens(e, tokens, k, scores, avgLen) ==
    IF k > Len(tokens) THEN scores
    ELSE ScoreTokens(e, tokens, k + 1,
            ScorePrefixes(e, PrefixTerms(e, tokens[k]),
                scoreToken(e, tokens[k], scores, avgLen, boostExact), avgLen),
            avgLen)

\* the title loop with a break after the first token found
BoostTitle_Break(titleLower, tokens, k, i, scores) ==
    IF \E j \in k..Len(tokens) : Contains(titleLower, tokens[j])
    THEN AddScore(scores, i, Float(titleBoost * One))
    ELSE scores

\* the title loop of Search for slot i over tokens[k..]
RECURSIVE BoostTitle(_, _, _, _, _)
BoostTitle(titleLower, tokens, k, i, scores) ==
    IF k > Len(tokens) THEN scores
    ELSE BoostTitle(titleLower, tokens, k + 1, i,
            IF Contains(titleLower, tokens[k])
            THEN AddScore(scores, i, Float(titleBoost * One))
            ELSE scores)

\* the title loop of Search over slots i..
RECURSIVE BoostTitles(_, _, _, _)
BoostTitles(e, tokens, i, scores) ==
    IF i >= Len(e.docs) THEN scores
    ELSE BoostTitles(e, tokens, i + 1,
            BoostTitle(ToLower(e.docs[i + 1].Title), tokens, 1, i, scores))

\* the scores map of Search just before "Collect and sort"
RawScores(e, tokens) ==
    BoostTitles(e, tokens, 0, ScoreTokens(e, tokens, 1, <<>>, avgDocLen(e)))

\* ---------------------------------------------------------------- excerpt

\* windowSize := 200 and the step i += 50 of extractExcerpt; the 50 that
\* start backs up by; maxLen as passed by Search
windowSize == 200
windowStep == 50
backUp == 50
excerptMaxLen == 300

Min(a, b) == IF a <= b THEN a ELSE b

\* content[start:end] with 0-based half-open bounds
Slice(s, start, end) == SubSeq(s, start + 1, end)

IsSpace(r) == r \in {" ", "\t", "\n", "\r"}

\* strings.TrimSpace
RECURSIVE TrimLeft(_)
TrimLeft(s) == IF Len(s) > 0 /\ IsSpace(Head(s)) THEN TrimLeft(Tail(s)) ELSE s

RECURSIVE TrimRight(_)
TrimRight(s) ==
    IF Len(s) > 0 /\ IsSpace(s[Len(s)])
    THEN TrimRight(SubSeq(s, 1, Len(s) - 1)) ELSE s

TrimSpace(s) == TrimRight(TrimLeft(s))

\* hits of one window: one per element of tokens contained in it
RECURSIVE WindowHits(_, _, _)
WindowHits(window, tokens, k) ==
    IF k > Len(tokens) THEN 0
    ELSE (IF Contains(window, tokens[k]) THEN 1 ELSE 0)
         + WindowHits(window, tokens, k + 1)

\* the window loop from offset i on; returns bestPos
RECURSIVE BestPos(_, _, _, _, _)
BestPos(lower, tokens, i, bestPos, bestHits) ==
    IF ~(i < Len(lower) - windowSize) THEN bestPos
    ELSE LET end == Min(i + windowSize, Len(lower))
             hits == WindowHits(Slice(lower, i, end), tokens, 1)
         IN IF hits > bestHits
            THEN BestPos(lower, tokens, i + windowStep, i, hits)
            ELSE BestPos(lower, tokens, i + windowStep, bestPos, bestHits)

\* start and end of the slice extractExcerpt takes
ExcerptStart(content, tokens) ==
    LET p == BestPos(ToLower(content), tokens, 0, 0, 0)
    IN IF p > backUp THEN p - backUp ELSE p

ExcerptEnd(content, tokens, maxLen) ==
    Min(ExcerptStart(content, tokens) + maxLen, Len(content))

\* content[start:end] panics unless 0 <= start <= end <= len(content)
SlicePanics(content, tokens, maxLen) ==
    LET start == ExcerptStart(content, tokens)
        end == ExcerptEnd(content, tokens, maxLen)
    IN Len(content) > 0 /\ ~(0 <= start /\ start <= end /\ end <= Len(content))

Dots == <<".", ".", ".">>

\* extractExcerpt(content, tokens, maxLen)
extractExcerpt(content, tokens, maxLen) ==
    IF Len(content) = 0 THEN <<>>
    ELSE LET start == ExcerptStart(content, tokens)
             end == ExcerptEnd(content, tokens, maxLen)
             body == TrimSpace(Slice(content, start, end))
         IN (IF start > 0 THEN Dots ELSE <<>>) \o body
            \o (IF end < Len(content) THEN Dots ELSE <<>>)

\* ---------------------------------------------------------------- ranking

\* every order in which "for idx, score := range scores" can visit the map
Orders(S) ==
    {o \in [1..Cardinality(S) -> S] : \A i, j \in DOMAIN o : i # j => o[i] # o[j]}

\* ranked as first collected, in visiting order o
Collect(scores, o) == [k \in DOMAIN o |-> [idx |-> o[k], score |-> scores[o[k]]]]

Swap(s, a, b) == [s EXCEPT ![a] = s[b], ![b] = s[a]]

\* is ranked[j].score > ranked[j-1].score (1-based positions j, j-1)
Above(ranked, j) == FGt(ranked[j].score, ranked[j - 1].score)

\* the inner loop of the insertion sort: j is a 1-based position
RECURSIVE SinkLeft(_, _)
SinkLeft(ranked, j) ==
    IF j > 1 /\ Above(ranked, j)
    THEN SinkLeft(Swap(ranked, j, j - 1), j - 1)
    ELSE ranked

\* the outer loop of the insertion sort from 1-based position i on
RECURSIVE SortFrom(_, _)
SortFrom(ranked, i) ==
    IF i > Len(ranked) THEN ranked ELSE SortFrom(SinkLeft(ranked, i), i + 1)

InsertionSort(ranked) == SortFrom(ranked, 2)

\* maxScore of "Build results"
MaxScore(ranked) == IF Len(ranked) > 0 THEN ranked[1].score ELSE Float(0)

\* Search that returns the raw score
Normalized_Raw(score, maxScore) == score

\* normalizedScore of one ranked entry
Normalized(score, maxScore) ==
    IF FGt(maxScore, Float(0)) THEN FDiv(score, maxScore) ELSE Float(0)

\* the results loop: entries at 0-based positions below topK
BuildResults(e, ranked, tokens, topK) ==
    [k \in 1..Min(Len(ranked), topK) |->
        LET doc == e.docs[ranked[k].idx + 1]
        IN Result(doc.Title, doc.URL,
                  extractExcerpt(doc.Content, tokens, excerptMaxLen),
                  Normalized(ranked[k].score, MaxScore(ranked)))]

\* what one call of a method leaves behind: whether it panicked, the value
\* it returned, and for Search its locals tokens and (sorted) ranked
Outcome(panicked, results, ranked, tokens) ==
    [panicked |-> panicked, results |-> results, ranked |-> ranked,
     tokens |-> tokens]

\* make([]Result, 0, topK) panics for a negative capacity
MakePanics(topK) == topK < 0

\* does the results loop panic on one of the entries it reaches
BuildPanics(e, ranked, tokens, topK) ==
    \E k \in 1..Min(Len(ranked), topK) :
        SlicePanics(e.docs[ranked[k].idx + 1].Content, tokens, excerptMaxLen)

\* Search from "Collect and sort" on: ranked is the slice as collected
SearchRanked(e, tokens, ranked, topK) ==
    IF MakePanics(topK) \/ BuildPanics(e, InsertionSort(ranked), tokens, topK)
    THEN Outcome(TRUE, <<>>, InsertionSort(ranked), tokens)
    ELSE Outcome(FALSE,
                 BuildResults(e, InsertionSort(ranked), tokens, topK),
                 InsertionSort(ranked), tokens)

\* Search without the early return for a query of no tokens
SearchOutcomes_NoTokenCheck(e, query, topK) ==
    LET tokens == tokenize(query)
        scores == RawScores(e, tokens)
    IN IF Len(e.docs) = 0 THEN {Outcome(FALSE, <<>>, <<>>, <<>>)}
       ELSE {SearchRanked(e, tokens, Collect(scores, o), topK) :
                o \in Orders(DOMAIN scores)}

\* the outcomes of Search(query, topK) on engine e, one for each order in
\* which the scores map can be visited
SearchOutcomes(e, query, topK) ==
    LET tokens == tokenize(query)
        scores == RawScores(e, tokens)
    IN IF Len(e.docs) = 0 THEN {Outcome(FALSE, <<>>, <<>>, <<>>)}
       ELSE IF Len(tokens) = 0 THEN {Outcome(FALSE, <<>>, <<>>, tokens)}
       ELSE {SearchRanked(e, tokens, Collect(scores, o), topK) :
                o \in Orders(DOMAIN scores)}

\* ------------------------------------------------------------ persistence

\* json.Marshal of one Doc: an object keyed by the struct's json tags
MarshalDoc(d) ==
    [id |-> d.ID, title |-> d.Title, url |-> d.URL, content |-> d.Content,
     tags |-> d.Tags]

\* json.Unmarshal of one object into a Doc
UnmarshalDoc(o) == Doc(o.id, o.title, o.url, o.content, o.tags)

\* The JSON text of a cacheFile, piece by piece: the opening {"docs":[ , one
\* object for each document, the closing ]}
Piece(kind, obj) == [kind |-> kind, obj |-> obj]

OpenPiece == Piece("open", MarshalDoc(Doc(<<>>, <<>>, <<>>, <<>>, <<>>)))

ClosePiece == Piece("close", MarshalDoc(Doc(<<>>, <<>>, <<>>, <<>>, <<>>)))

\* json.Marshal(cacheFile{Docs: ds})
MarshalDocs(ds) ==
    <<OpenPiece>> \o [k \in DOMAIN ds |-> Piece("doc", MarshalDoc(ds[k]))]
        \o <<ClosePiece>>

\* the cache file: missing (or unreadable), or its bytes
NoFile == [exists |-> FALSE, data |-> <<>>]

\* os.WriteFile opens with O_TRUNC: the file exists and is empty
Truncated == [exists |-> TRUE, data |-> <<>>]

\* a zero byte, which a write beyond the end of a file leaves in the gap
NulPiece == Piece("nul", MarshalDoc(Doc(<<>>, <<>>, <<>>, <<>>, <<>>)))

\* a write of bytes through a descriptor whose offset is off: they replace
\* what the file holds at off.., the rest of the file stays
WriteAt(f, off, bytes) ==
    LET n == IF Len(f.data) > off + Len(bytes)
             THEN Len(f.data) ELSE off + Len(bytes)
    IN [exists |-> TRUE,
        data |-> [j \in 1..n |->
                    IF j > off /\ j <= off + Len(bytes) THEN bytes[j - off]
                    ELSE IF j <= Len(f.data) THEN f.data[j] ELSE NulPiece]]

\* SaveCache(path): the file a successful os.WriteFile leaves
Marshal(e) == WriteAt(Truncated, 0, MarshalDocs(e.docs))

\* does json.Unmarshal(data, &cf) return nil: data is one whole cacheFile
\* text and nothing else
Decodes(data) ==
    /\ Len(data) >= 2
    /\ data[1] = OpenPiece
    /\ data[Len(data)] = ClosePiece
    /\ \A k \in 2..(Len(data) - 1) : data[k].kind = "doc"

\* cf.Docs after json.Unmarshal of the bytes of file f, when they decode
Unmarshal(f) ==
    [k \in 1..(Len(f.data) - 2) |-> UnmarshalDoc(f.data[k + 1].obj)]

\* does LoadCache(path) return an error: os.ReadFile fails, or
\* json.Unmarshal does
LoadFails(f) == ~f.exists \/ ~Decodes(f.data)

\* the documents LoadCache hands to AddDoc, in order
LoadDocs(f) == IF LoadFails(f) THEN <<>> ELSE Unmarshal(f)

\* LoadCache that adds each document object as soon as it is read, before
\* the text is known to be whole
LoadCacheTo_Streaming(e, f) ==
    LET objs == SelectSeq(f.data, LAMBDA p : p.kind = "doc")
    IN AddDocsTo(e, [k \in DOMAIN objs |-> UnmarshalDoc(objs[k].obj)])

\* LoadCache(path) on engine e: no change when it returns an error, else
\* AddDoc for each decoded document in order
LoadCacheTo(e, f) == AddDocsTo(e, LoadDocs(f))

\* ------------------------------------------------------------- goroutines

\* the goroutines that call the engine: HTTP handlers, "go SaveCache", the
\* indexing goroutines
Procs == {"g1", "g2"}

\* Engine.mu, a sync.RWMutex: who holds it for reading, who for writing
Unlocked == [readers |-> {}, writer |-> "none"]

\* may e.mu.RLock() return: no writer holds the lock
CanRLock_IgnoreWriter(m) == TRUE

CanRLock(m) == m.writer = "none"

\* may e.mu.Lock() return: nobody holds the lock
CanLock_IgnoreReaders(m) == m.writer = "none"

CanLock(m) == m.writer = "none" /\ m.readers = {}

NoDoc == Doc(<<>>, <<>>, <<>>, <<>>, <<>>)

\* One goroutine: the method it runs (op) and where it stands in it (pc),
\* the method's locals (doc and slot of AddDoc; data of SaveCache and the
\* offset off of the descriptor it writes through; cf.Docs of LoadCache and
\* the number k of them already added), and as history whether its last
\* SaveCache opened the file while another one was running
Goroutine(pc, op, doc, slot, data, off, cf, k, overlap) ==
    [pc |-> pc, op |-> op, doc |-> doc, slot |-> slot, data |-> data,
     off |-> off, cf |-> cf, k |-> k, overlap |-> overlap]

Idle == Goroutine("idle", "none", NoDoc, 0, <<>>, 0, <<>>, 0, FALSE)

\* ----------------------------------------------------------- package main

\* Config, the fields the handlers read: the default of loadConfig has no
\* OpenAI key and no offline docs path
Config(key, path) == [OpenAIKey |-> key, OfflineDocsPath |-> path]

DefaultConfig == Config(<<>>, <<>>)

\* the goroutines a go statement can have running at once
RunIds == {"r1", "r2"}

\* one goroutine started by a go statement: the function it runs, where it
\* is in it, its argument, and the locals of IndexPath (the number of files
\* to index, how many of them were handled, the pages parsed so far)
Run(fn, pc, path) ==
    [fn |-> fn, pc |-> pc, path |-> path, total |-> 0, k |-> 0,
     results |-> <<>>]

NotStarted == Run("none", "none", <<>>)

\* a run of indexOfflineDocs that has returned.  Its place is not taken
\* again: the runs started since main are at most as many as RunIds.
Returned == Run("none", "returned", <<>>)

\* one response: the status code, the "source" of a ChatResponse ("none"
\* for any other body), and the indexing_progress, indexing_done and
\* doc_count that /api/status and /api/config report
Reply(status, source, progress, done, count) ==
    [status |-> status, source |-> source, progress |-> progress,
     done |-> done, count |-> count]

\* the response of handleChat with this source
ChatReply(source) == Reply(200, source, 0, FALSE, 0)

\* what SearchLive returns: an error, or the pages fetched
Live(err, results) == [err |-> err, results |-> results]

\* one request as served: the handler and the method, the calls it made in
\* order, the result lists its local searches returned, what SearchLive
\* returned if called, and the responses it wrote
Exchange(handler, method, calls, found, live, responses) ==
    [handler |-> handler, method |-> method, calls |-> calls,
     found |-> found, live |-> live, responses |-> responses]

NoExchange == Exchange("none", "none", <<>>, <<>>, Live(FALSE, <<>>), <<>>)

\* strings.HasSuffix
HasSuffix(s, suffix) ==
    /\ Len(suffix) <= Len(s)
    /\ SubSeq(s, Len(s) - Len(suffix) + 1, Len(s)) = suffix

dotZip == <<".", "z", "i", "p">>

\* IndexPath: a path that ends in .zip is read with indexZip, any other with
\* indexFolder
IsZip(path) == HasSuffix(ToLower(path), dotZip)

\* indexZip reports after every 50th page parsed, indexFolder after every
\* 100th file handled
zipReportEvery == 50
folderReportEvery == 100

\* the callback indexOfflineDocs hands to IndexPath: the value it stores in
\* indexingProgress, int32(float64(done)/float64(total)*100), when total > 0
ProgressValue(done, total) == (done * 100) \div total

\* the indexingProgress after onProgress(done, total)
onProgress(progress, done, total) ==
    IF total > 0 THEN ProgressValue(done, total) ELSE progress

\* cfg.OpenAIKey != ""
HasKey(c) == c.OpenAIKey # <<>>

\* the stopWords map of package offline
offlineStopWords == {
    <<"t","h","e">>, <<"a">>, <<"a","n">>, <<"i","s">>, <<"i","n">>,
    <<"t","o">>, <<"o","f">>, <<"a","n","d">>, <<"o","r">>, <<"f","o","r">>,
    <<"o","n">>, <<"w","i","t","h">>, <<"t","h","i","s">>,
    <<"t","h","a","t">>, <<"i","t">>, <<"b","e">>, <<"a","s">>, <<"a","t">>,
    <<"b","y">>, <<"w","e">>, <<"h","o","w">>, <<"d","o">>, <<"i">>,
    <<"y","o","u">>, <<"c","a","n">>, <<"w","h","a","t">>,
    <<"f","r","o","m">>, <<"a","r","e">>, <<"u","s","e">>,
    <<"u","s","e","d">>, <<"m","y">>, <<"m","e">>, <<"g","e","t">>,
    <<"m","a","k","e">>, <<"c","r","e","a","t","e">>, <<"w","a","n","t">>,
    <<"n","e","e","d">>, <<"h","e","l","p">>, <<"u","s","i","n","g">>,
    <<"d","o","e","s">>, <<"w","o","u","l","d">>,
    <<"s","h","o","u","l","d">>, <<"c","o","u","l","d">>,
    <<"w","i","l","l">>, <<"p","l","e","a","s","e">>, <<"j","u","s","t">>,
    <<"a","l","s","o">>, <<"w","a","y">>, <<"s","o","m","e">>,
    <<"g","i","v","e">>, <<"s","h","o","w">>, <<"t","e","l","l">>,
    <<"w","r","i","t","e">>, <<"l","e","t">>, <<"s","e","t">>,
    <<"p","u","t">>, <<"t","r","y">>, <<"w","o","r","k">>,
    <<"w","o","r","k","s">> }

\* tokenize of package offline from rune i on: no lowering, no stop words;
\* a block of letters and digits is taken in one step
RECURSIVE OfflineTokenizeFrom(_, _, _, _)
OfflineTokenizeFrom(text, i, current, tokens) ==
    IF i > Len(text)
    THEN IF ByteLen(current) >= 2 THEN Append(tokens, current) ELSE tokens
    ELSE IF IsLetter(text[i]) \/ IsDigit(text[i])
         THEN LET j == RunEnd(text, i)
              IN OfflineTokenizeFrom(text, j + 1,
                     current \o SubSeq(text, i, j), tokens)
         ELSE OfflineTokenizeFrom(text, i + 1, <<>>,
                  IF ByteLen(current) >= 2 THEN Append(tokens, current)
                  ELSE tokens)

\* a list without the later occurrences of its elements (the seen maps of
\* UnderstandQuery)
RECURSIVE Unseen(_, _, _)
Unseen(list, k, seen) ==
    IF k > Len(list) THEN <<>>
    ELSE IF list[k] \in seen THEN Unseen(list, k + 1, seen)
    ELSE <<list[k]>> \o Unseen(list, k + 1, seen \cup {list[k]})

\* pq.Keywords for pq.Normalized
Keywords(normalized) ==
    Unseen(SelectSeq(OfflineTokenizeFrom(normalized, 1, <<>>, <<>>),
                     LAMBDA tok : tok \notin offlineStopWords
                                  /\ ByteLen(tok) >= 2),
           1, {})

pool == <<"p","o","o","l">>

\* unitySymbols, the entry whose alias occurs in a message served here
unitySymbols ==
    [alias \in {pool} |->
        << <<"O","b","j","e","c","t","P","o","o","l">>,
           <<"I","n","s","t","a","n","t","i","a","t","e">>,
           <<"D","e","s","t","r","o","y">> >>]

\* the symbols of the aliases order[k..], in that order
RECURSIVE SymbolsOf(_, _)
SymbolsOf(order, k) ==
    IF k > Len(order) THEN <<>>
    ELSE unitySymbols[order[k]] \o SymbolsOf(order, k + 1)

\* pq.EnhancedQuery() of UnderstandQuery(raw), for every order in which
\* "for alias, symbols := range unitySymbols" can visit the map
EnhancedQueries(raw) ==
    LET normalized == ToLower(TrimSpace(raw))
        found == {alias \in DOMAIN unitySymbols : Contains(normalized, alias)}
    IN {Join(Keywords(normalized) \o Unseen(SymbolsOf(order, 1), 1, {}), SP) :
            order \in Orders(found)}

\* the 0.4 of handleChat, in tenths
minAnswerScore == 4

\* results[0].Score < 0.4
BelowAnswerScore(results) ==
    FGt(Float(minAnswerScore * (One \div 10)), results[1].Score)

\* the test with len(results) > 1
Answers_TwoResults(results) ==
    /\ Len(results) > 1
    /\ ~results[1].Score.nan
    /\ results[1].Score.v >= minAnswerScore * (One \div 10)

\* len(results) > 0 && results[0].Score >= 0.4
Answers(results) ==
    /\ Len(results) > 0
    /\ ~results[1].Score.nan
    /\ results[1].Score.v >= minAnswerScore * (One \div 10)

\* ------------------------------------------------------------------ state

VARIABLES
    docs,       \* Engine.docs
    index,      \* Engine.index
    file,       \* the cache file on disk
    savedFrom,  \* history: the engine state the last SaveCache serialized
    upserts,    \* history: AddDoc calls made so far
    last,       \* history: the last call, its arguments and what it returned
    mu,         \* Engine.mu
    gor,        \* the goroutines inside the engine's methods
    arg,        \* what is handed to tokenize or extractExcerpt called alone
    cfg,        \* var cfg Config: OpenAIKey and OfflineDocsPath
    indexingProgress,   \* var indexingProgress int32
    indexingDone,       \* var indexingDone int32
    runs,       \* the goroutines started by a go statement of package main
    http        \* history: the last request served and the responses written

\* the state of package main
server == <<cfg, indexingProgress, indexingDone, runs, http>>

vars ==
    <<docs, index, file, savedFrom, upserts, last, mu, gor, arg, cfg,
      indexingProgress, indexingDone, runs, http>>

\* what a call made while no other is running leaves alone
aside == <<mu, gor, arg, server>>

\* package main before main has run: cfg as loadConfig sets it when there is
\* no config.json, the int32 globals at their zero value, no goroutine
\* started, no request served
ServerInit ==
    /\ cfg = DefaultConfig
    /\ indexingProgress = 0
    /\ indexingDone = 0
    /\ runs = [r \in RunIds |-> NotStarted]
    /\ http = NoExchange

Engine == [docs |-> docs, index |-> index]

NoOutcome == Outcome(FALSE, <<>>, <<>>, <<>>)

\* the locations stored in a document list
Locations(ds) == {ds[i].URL : i \in DOMAIN ds}

\* the record kept of one call: op, its arguments (urls: the locations it
\* upserts, in any number), what it returned, and the engine it found
Call(op, urls, query, topK, out, err) ==
    [op |-> op, urls |-> urls, query |-> query, topK |-> topK, out |-> out,
     err |-> err, countBefore |-> Len(docs), before |-> Locations(docs),
     fresh |-> Engine = EmptyEngine]

Init ==
    /\ docs = EmptyEngine.docs
    /\ index = EmptyEngine.index
    /\ file = NoFile
    /\ savedFrom = EmptyEngine
    /\ upserts = 0
    /\ last = [op |-> "NewEngine", urls |-> {}, query |-> <<>>, topK |-> 0,
               out |-> NoOutcome, err |-> FALSE, countBefore |-> 0,
               before |-> {}, fresh |-> TRUE]
    /\ mu = Unlocked
    /\ gor = [p \in Procs |-> Idle]
    /\ arg = <<>>
    /\ ServerInit

\* searcher = search.NewEngine(): the process starts over with an empty engine
NewEngine ==
    /\ docs' = EmptyEngine.docs
    /\ index' = EmptyEngine.index
    /\ last' = Call("NewEngine", {}, <<>>, 0, NoOutcome, FALSE)
    /\ UNCHANGED <<file, savedFrom, upserts, aside>>

AddDoc(doc) ==
    /\ upserts < MaxUpserts
    /\ docs' = AddDocTo(Engine, doc).docs
    /\ index' = AddDocTo(Engine, doc).index
    /\ upserts' = upserts + 1
    /\ last' = Call("AddDoc", {doc.URL}, <<>>, 0, NoOutcome, FALSE)
    /\ UNCHANGED <<file, savedFrom, aside>>

AddResults(results) ==
    /\ upserts + Len(results) <= MaxUpserts
    /\ docs' = AddResultsTo(Engine, results).docs
    /\ index' = AddResultsTo(Engine, results).index
    /\ upserts' = upserts + Len(results)
    /\ last' = Call("AddResults", {results[k].URL : k \in DOMAIN results},
                   <<>>, 0, NoOutcome, FALSE)
    /\ UNCHANGED <<file, savedFrom, aside>>

Search(query, topK) ==
    /\ \E out \in SearchOutcomes(Engine, query, topK) :
          last' = Call("Search", {}, query, topK, out, FALSE)
    /\ UNCHANGED <<docs, index, file, savedFrom, upserts, aside>>

GetDocCount ==
    /\ last' = Call("DocCount", {}, <<>>, 0, NoOutcome, FALSE)
    /\ UNCHANGED <<docs, index, file, savedFrom, upserts, aside>>

\* SaveCache(path).  os.WriteFile may fail after n of the bytes are written
\* (n = all of them: it succeeds); SaveCache returns its error.
SaveCache ==
    /\ \E n \in 0..Len(MarshalDocs(docs)) :
          /\ file' = WriteAt(Truncated, 0, SubSeq(MarshalDocs(docs), 1, n))
          /\ last' = Call("SaveCache", {}, <<>>, 0, NoOutcome,
                         n < Len(MarshalDocs(docs)))
    /\ savedFrom' = Engine
    /\ UNCHANGED <<docs, index, upserts, aside>>

LoadCache ==
    /\ upserts + Len(LoadDocs(file)) <= MaxUpserts
    /\ docs' = LoadCacheTo(Engine, file).docs
    /\ index' = LoadCacheTo(Engine, file).index
    /\ upserts' = upserts + Len(LoadDocs(file))
    /\ last' = Call("LoadCache", Locations(LoadDocs(file)), <<>>, 0,
                   NoOutcome, LoadFails(file))
    /\ UNCHANGED <<file, savedFrom, aside>>

\* tokenize(arg), called by itself
Tokenize ==
    /\ last' = Call("tokenize", {}, arg, 0,
                    Outcome(FALSE, <<>>, <<>>, tokenize(arg)), FALSE)
    /\ UNCHANGED <<docs, index, file, savedFrom, upserts, mu, gor, arg, server>>

\* extractExcerpt(arg.content, arg.tokens, arg.maxLen), called by itself.
\* Kept of the call: the excerpt (in a Result), bestPos (as the idx of a
\* ranked entry), the tokens, and whether the slice panics.
Excerpt ==
    /\ last' = Call("extractExcerpt", {}, arg.content, arg.maxLen,
                    Outcome(SlicePanics(arg.content, arg.tokens, arg.maxLen),
                            <<Result(<<>>, <<>>,
                                     extractExcerpt(arg.content, arg.tokens,
                                                    arg.maxLen),
                                     Float(0))>>,
                            <<[idx |-> BestPos(ToLower(arg.content),
                                               arg.tokens, 0, 0, 0),
                               score |-> Float(0)]>>,
                            arg.tokens),
                    FALSE)
    /\ UNCHANGED <<docs, index, file, savedFrom, upserts, mu, gor, arg, server>>

\* tokenize(strings.Join(tokens, " ")) for the tokens the last call returned
TokenizeJoined ==
    /\ last.op = "tokenize"
    /\ last' = Call("tokenize", {}, Join(last.out.tokens, SP), 0,
                    Outcome(FALSE, <<>>, <<>>,
                            tokenize(Join(last.out.tokens, SP))), FALSE)
    /\ UNCHANGED <<docs, index, file, savedFrom, upserts, mu, gor, arg, server>>

\* The same methods as goroutine p runs them, one step for each access to
\* the lock, the engine or the file.  A sync.RWMutex also holds back new
\* readers while a writer waits; that only removes interleavings.

\* AddDoc(doc): e.mu.Lock() returns
AddDocLock(p, doc) ==
    /\ gor[p].pc = "idle"
    /\ upserts < MaxUpserts
    /\ CanLock(mu)
    /\ mu' = [mu EXCEPT !.writer = p]
    /\ gor' = [gor EXCEPT ![p] = Goroutine("store", "AddDoc", doc, 0, <<>>,
                                           0, <<>>, 0, @.overlap)]
    /\ upserts' = upserts + 1
    /\ UNCHANGED <<docs, index, file, savedFrom, last, arg, server>>

\* AddDoc: e.docs[i] = doc, or idx := len(e.docs) and the append
AddDocStore(p) ==
    /\ gor[p].pc = "store"
    /\ docs' = AddDocTo(Engine, gor[p].doc).docs
    /\ gor' = [gor EXCEPT ![p].pc = "reindex",
                          ![p].slot = IF SlotOf(docs, gor[p].doc.URL) >= 0
                                      THEN SlotOf(docs, gor[p].doc.URL)
                                      ELSE Len(docs)]
    /\ UNCHANGED <<index, file, savedFrom, upserts, last, mu, arg, server>>

\* AddDoc: e.reindexDoc(i, doc)
AddDocReindex(p) ==
    /\ gor[p].pc = "reindex"
    /\ index' = reindexDoc(index, gor[p].slot, gor[p].doc)
    /\ gor' = [gor EXCEPT ![p].pc = "unlock"]
    /\ UNCHANGED <<docs, file, savedFrom, upserts, last, mu, arg, server>>

\* AddDoc: the deferred e.mu.Unlock() and the return, to the caller or to
\* the loop of LoadCache
AddDocUnlock(p) ==
    /\ gor[p].pc = "unlock"
    /\ mu' = [mu EXCEPT !.writer = "none"]
    /\ gor' = IF gor[p].op = "LoadCache"
              THEN [gor EXCEPT ![p].pc = "loop", ![p].k = @ + 1]
              ELSE [gor EXCEPT ![p].pc = "idle"]
    /\ UNCHANGED <<docs, index, file, savedFrom, upserts, last, arg, server>>

\* DocCount(), Search(query, topK) or SaveCache(path): e.mu.RLock() returns
RLock(p, op) ==
    /\ gor[p].pc = "idle"
    /\ CanRLock(mu)
    /\ mu' = [mu EXCEPT !.readers = @ \cup {p}]
    /\ gor' = [gor EXCEPT ![p] = Goroutine("locked", op, NoDoc, 0, <<>>, 0,
                                           <<>>, 0, FALSE)]
    /\ UNCHANGED <<docs, index, file, savedFrom, upserts, last, arg, server>>

\* DocCount: len(e.docs), the deferred e.mu.RUnlock() and the return
DocCountReturn(p) ==
    /\ gor[p].pc = "locked" /\ gor[p].op = "DocCount"
    /\ last' = Call("DocCount", {}, <<>>, 0, NoOutcome, FALSE)
    /\ mu' = [mu EXCEPT !.readers = @ \ {p}]
    /\ gor' = [gor EXCEPT ![p].pc = "idle"]
    /\ UNCHANGED <<docs, index, file, savedFrom, upserts, arg, server>>

\* Search: the body, the deferred e.mu.RUnlock() and the return
SearchReturn(p, query, topK) ==
    /\ gor[p].pc = "locked" /\ gor[p].op = "Search"
    /\ \E out \in SearchOutcomes(Engine, query, topK) :
          last' = Call("Search", {}, query, topK, out, FALSE)
    /\ mu' = [mu EXCEPT !.readers = @ \ {p}]
    /\ gor' = [gor EXCEPT ![p].pc = "idle"]
    /\ UNCHANGED <<docs, index, file, savedFrom, upserts, arg, server>>

\* SaveCache: data, err := json.Marshal(cacheFile{Docs: e.docs})
SaveCacheMarshal(p) ==
    /\ gor[p].pc = "locked" /\ gor[p].op = "SaveCache"
    /\ gor' = [gor EXCEPT ![p].pc = "open", ![p].data = MarshalDocs(docs)]
    /\ savedFrom' = Engine
    /\ UNCHANGED <<docs, index, file, upserts, last, mu, arg, server>>

\* SaveCache: os.WriteFile opens the file with O_TRUNC
SaveCacheOpen(p) ==
    /\ gor[p].pc = "open"
    /\ file' = Truncated
    /\ gor' = [gor EXCEPT ![p].pc = "write",
                          ![p].overlap =
                              \E q \in Procs \ {p} :
                                  gor[q].op = "SaveCache" /\ gor[q].pc # "idle"]
    /\ UNCHANGED <<docs, index, savedFrom, upserts, last, mu, arg, server>>

\* SaveCache: os.WriteFile writes data, here one piece for each step (a
\* write that takes more of them at once is the steps without another
\* goroutine's in between), and closes the file after the last
SaveCacheWrite(p) ==
    /\ gor[p].pc = "write"
    /\ file' = WriteAt(file, gor[p].off, <<gor[p].data[gor[p].off + 1]>>)
    /\ gor' = [gor EXCEPT ![p].off = @ + 1,
                          ![p].pc = IF gor[p].off + 1 = Len(gor[p].data)
                                    THEN "runlock" ELSE "write"]
    /\ UNCHANGED <<docs, index, savedFrom, upserts, last, mu, arg, server>>

\* SaveCache: the deferred e.mu.RUnlock() and the return
SaveCacheReturn(p) ==
    /\ gor[p].pc = "runlock"
    /\ mu' = [mu EXCEPT !.readers = @ \ {p}]
    /\ gor' = [gor EXCEPT ![p].pc = "idle"]
    /\ UNCHANGED <<docs, index, file, savedFrom, upserts, last, arg, server>>

\* LoadCache(path): os.ReadFile and json.Unmarshal; on an error the return,
\* else the loop over cf.Docs begins
LoadCacheRead(p) ==
    /\ gor[p].pc = "idle"
    /\ upserts + Len(LoadDocs(file)) <= MaxUpserts
    /\ gor' = [gor EXCEPT ![p] =
                  Goroutine(IF LoadFails(file) THEN "idle" ELSE "loop",
                            "LoadCache", NoDoc, 0, file.data, 0,
                            LoadDocs(file), 0, FALSE)]
    /\ upserts' = upserts + Len(LoadDocs(file))
    /\ UNCHANGED <<docs, index, file, savedFrom, last, mu, arg, server>>

\* LoadCache: e.AddDoc(doc) for the next element of cf.Docs, up to
\* e.mu.Lock() returning
LoadCacheAddDoc(p) ==
    /\ gor[p].pc = "loop"
    /\ gor[p].k < Len(gor[p].cf)
    /\ CanLock(mu)
    /\ mu' = [mu EXCEPT !.writer = p]
    /\ gor' = [gor EXCEPT ![p].pc = "store", ![p].doc = gor[p].cf[gor[p].k + 1]]
    /\ UNCHANGED <<docs, index, file, savedFrom, upserts, last, arg, server>>

\* LoadCache: return nil after the loop
LoadCacheReturn(p) ==
    /\ gor[p].pc = "loop"
    /\ gor[p].k = Len(gor[p].cf)
    /\ gor' = [gor EXCEPT ![p].pc = "idle"]
    /\ UNCHANGED <<docs, index, file, savedFrom, upserts, last, mu, arg, server>>

\* handleChat: the request has this method, its body decodes or not into a
\* ChatRequest with this message; docManager.SearchLive, when called,
\* returns one of lives, and client.Ask fails or not.  The handler runs
\* with no other call on the engine in between.
handleChat(method, decodes, message, lives) ==
    LET raw == TrimSpace(message)
        Served(calls, found, live, source) ==
            http' = Exchange("handleChat", method, calls, found, live,
                             <<ChatReply(source)>>)
    IN
    IF method # "POST"
    THEN /\ http' = Exchange("handleChat", method, <<>>, <<>>,
                              Live(FALSE, <<>>),
                              <<Reply(405, "none", 0, FALSE, 0)>>)
         /\ UNCHANGED <<docs, index, file, savedFrom, upserts, last, mu, gor,
                        arg, cfg, indexingProgress, indexingDone, runs>>
    ELSE IF ~decodes \/ raw = <<>>
    THEN /\ Served(<<>>, <<>>, Live(FALSE, <<>>), "error")
         /\ UNCHANGED <<docs, index, file, savedFrom, upserts, last, mu, gor,
                        arg, cfg, indexingProgress, indexingDone, runs>>
    ELSE
      \E searchQuery \in EnhancedQueries(raw) :
      \E enhanced \in SearchOutcomes(Engine, searchQuery, 5) :
        LET again == Len(enhanced.results) = 0
                     \/ BelowAnswerScore(enhanced.results)
        IN
        \E fallback \in (IF again THEN SearchOutcomes(Engine, raw, 5)
                         ELSE {NoOutcome}) :
          LET rawResults == fallback.results
              results ==
                  IF /\ again
                     /\ Len(rawResults) > 0
                     /\ (Len(enhanced.results) = 0
                         \/ FGt(rawResults[1].Score, enhanced.results[1].Score))
                  THEN rawResults ELSE enhanced.results
              searches == IF again THEN <<"Search", "Search">> ELSE <<"Search">>
              found == IF again THEN <<enhanced.results, rawResults>>
                       ELSE <<enhanced.results>>
              lastSearch ==
                  IF again THEN Call("Search", {}, raw, 5, fallback, FALSE)
                  ELSE Call("Search", {}, searchQuery, 5, enhanced, FALSE)
          IN
          IF Answers(results)
          THEN /\ Served(searches, found, Live(FALSE, <<>>), "local_docs")
               /\ last' = lastSearch
               /\ UNCHANGED <<docs, index, file, savedFrom, upserts, mu, gor,
                              arg, cfg, indexingProgress, indexingDone, runs>>
          ELSE \E live \in lives :
          IF ~live.err /\ Len(live.results) > 0
          THEN /\ upserts + Len(live.results) <= MaxUpserts
               /\ docs' = AddResultsTo(Engine, live.results).docs
               /\ index' = AddResultsTo(Engine, live.results).index
               /\ upserts' = upserts + Len(live.results)
               /\ last' = Call("AddResults",
                               {live.results[k].URL : k \in DOMAIN live.results},
                               <<>>, 0, NoOutcome, FALSE)
               /\ \E r \in RunIds :
                     /\ runs[r] = NotStarted
                     /\ runs' = [runs EXCEPT ![r] = Run("SaveCache", "start", <<>>)]
               /\ Served(searches \o <<"SearchLive", "AddResults", "go SaveCache">>,
                         found, live, "live_docs")
               /\ UNCHANGED <<file, savedFrom, mu, gor, arg, cfg,
                              indexingProgress, indexingDone>>
          ELSE /\ \E askFails \in (IF HasKey(cfg) THEN BOOLEAN ELSE {TRUE}) :
                     Served(searches \o <<"SearchLive">>
                              \o (IF HasKey(cfg) THEN <<"Ask">> ELSE <<>>),
                            found, live,
                            IF HasKey(cfg) /\ ~askFails
                            THEN "openai" ELSE "not_found")
               /\ last' = lastSearch
               /\ UNCHANGED <<docs, index, file, savedFrom, upserts, mu, gor,
                              arg, cfg, indexingProgress, indexingDone, runs>>

\* the goroutine of "go searcher.SaveCache(...)" runs: SaveCache as a whole,
\* its error dropped
RunSaveCache(r) ==
    /\ runs[r] = Run("SaveCache", "start", <<>>)
    /\ \E n \in 0..Len(MarshalDocs(docs)) :
          /\ file' = WriteAt(Truncated, 0, SubSeq(MarshalDocs(docs), 1, n))
          /\ last' = Call("SaveCache", {}, <<>>, 0, NoOutcome,
                         n < Len(MarshalDocs(docs)))
    /\ savedFrom' = Engine
    /\ runs' = [runs EXCEPT ![r] = NotStarted]
    /\ UNCHANGED <<docs, index, upserts, mu, gor, arg, cfg, indexingProgress,
                   indexingDone, http>>

\* the body of a POST to /api/config as decoded: which of openai_key and
\* offline_docs_path it has, and their values
Update(hasKey, key, hasPath, path) ==
    [hasKey |-> hasKey, key |-> key, hasPath |-> hasPath, path |-> path]

\* what /api/status and a GET of /api/config report of the indexing
StatusReply ==
    Reply(200, "none", indexingProgress, indexingDone = 1, Len(docs))

\* handleConfig.  config.json, which saveConfig writes, is read only by
\* loadConfig when main begins and is not kept here.
handleConfig(method, update) ==
    IF method = "GET"
    THEN /\ http' = Exchange("handleConfig", method, <<"DocCount">>, <<>>,
                              Live(FALSE, <<>>), <<StatusReply>>)
         /\ UNCHANGED <<docs, index, file, savedFrom, upserts, last, mu, gor,
                        arg, cfg, indexingProgress, indexingDone, runs>>
    ELSE IF method = "POST"
    THEN LET changes == update.hasPath /\ update.path # cfg.OfflineDocsPath
             starts == changes /\ update.path # <<>>
         IN /\ cfg' = Config(IF update.hasKey THEN update.key
                              ELSE cfg.OpenAIKey,
                              IF changes THEN update.path
                              ELSE cfg.OfflineDocsPath)
            /\ IF starts
               THEN \E r \in RunIds :
                       /\ runs[r] = NotStarted
                       /\ runs' = [runs EXCEPT ![r] =
                                      Run("indexOfflineDocs", "start",
                                          update.path)]
               ELSE runs' = runs
            /\ http' = Exchange("handleConfig", method,
                                IF starts THEN <<"go indexOfflineDocs">>
                                ELSE <<>>,
                                <<>>, Live(FALSE, <<>>),
                                <<Reply(200, "none", 0, FALSE, 0)>>)
            /\ UNCHANGED <<docs, index, file, savedFrom, upserts, last, mu,
                           gor, arg, indexingProgress, indexingDone>>
    ELSE /\ http' = Exchange("handleConfig", method, <<>>, <<>>,
                              Live(FALSE, <<>>), <<>>)
         /\ UNCHANGED <<docs, index, file, savedFrom, upserts, last, mu, gor,
                        arg, cfg, indexingProgress, indexingDone, runs>>

\* handleStatus
handleStatus ==
    /\ http' = Exchange("handleStatus", "GET", <<"DocCount">>, <<>>,
                        Live(FALSE, <<>>), <<StatusReply>>)
    /\ UNCHANGED <<docs, index, file, savedFrom, upserts, last, mu, gor, arg,
                   cfg, indexingProgress, indexingDone, runs>>

\* handleIndexOffline: the path of the body, else the configured one, else
\* the one FindDocPath detects
handleIndexOffline(bodyPath, detected) ==
    LET given == TrimSpace(bodyPath)
        configured == IF given = <<>> THEN cfg.OfflineDocsPath ELSE given
        path == IF configured = <<>> THEN detected ELSE configured
    IN IF path = <<>>
       THEN /\ http' = Exchange("handleIndexOffline", "POST", <<>>, <<>>,
                                 Live(FALSE, <<>>),
                                 <<Reply(200, "error", 0, FALSE, 0)>>)
            /\ UNCHANGED <<docs, index, file, savedFrom, upserts, last, mu,
                           gor, arg, cfg, indexingProgress, indexingDone,
                           runs>>
       ELSE /\ cfg' = Config(cfg.OpenAIKey, path)
            /\ \E r \in RunIds :
                  /\ runs[r] = NotStarted
                  /\ runs' = [runs EXCEPT ![r] =
                                 Run("indexOfflineDocs", "start", path)]
            /\ http' = Exchange("handleIndexOffline", "POST",
                                <<"go indexOfflineDocs">>, <<>>,
                                Live(FALSE, <<>>),
                                <<Reply(200, "none", 0, FALSE, 0)>>)
            /\ UNCHANGED <<docs, index, file, savedFrom, upserts, last, mu,
                           gor, arg, indexingProgress, indexingDone>>

\* indexOfflineDocs, statement by statement of what it shares.
\* atomic.StoreInt32(&indexingDone, 0)
IndexingBegins(r) ==
    /\ runs[r].fn = "indexOfflineDocs" /\ runs[r].pc = "start"
    /\ indexingDone' = 0
    /\ runs' = [runs EXCEPT ![r].pc = "reset"]
    /\ UNCHANGED <<docs, index, file, savedFrom, upserts, last, mu, gor, arg,
                   cfg, indexingProgress, http>>

\* atomic.StoreInt32(&indexingProgress, 0)
IndexingResets(r) ==
    /\ runs[r].fn = "indexOfflineDocs" /\ runs[r].pc = "reset"
    /\ indexingProgress' = 0
    /\ runs' = [runs EXCEPT ![r].pc = "open"]
    /\ UNCHANGED <<docs, index, file, savedFrom, upserts, last, mu, gor, arg,
                   cfg, indexingDone, http>>

\* IndexPath up to its loop: indexZip fails when the archive does not open,
\* indexFolder when the walk finds no file to index; indexOfflineDocs then
\* stores indexingDone = 1 and returns.  total is the number of files found.
IndexPathOpens(r, opens, total) ==
    /\ runs[r].fn = "indexOfflineDocs" /\ runs[r].pc = "open"
    /\ IF (IsZip(runs[r].path) /\ ~opens)
          \/ (~IsZip(runs[r].path) /\ total = 0)
       THEN /\ indexingDone' = 1
            /\ runs' = [runs EXCEPT ![r] = Returned]
       ELSE /\ indexingDone' = indexingDone
            /\ runs' = [runs EXCEPT ![r].total = total,
                                    ![r].pc = IF total = 0 THEN "report"
                                              ELSE "file"]
    /\ UNCHANGED <<docs, index, file, savedFrom, upserts, last, mu, gor, arg,
                   cfg, indexingProgress, http>>

\* one file of the loop: parsed into a page or skipped.  indexZip counts the
\* pages parsed, indexFolder the files handled, and the one that parsed a
\* page calls onProgress when its count is a multiple of the period.
\* (indexFolder handles its files on eight goroutines; here one at a time.)
IndexPathFile(r, page, parsed) ==
    /\ runs[r].fn = "indexOfflineDocs" /\ runs[r].pc = "file"
    /\ LET results == IF parsed THEN Append(runs[r].results, page)
                      ELSE runs[r].results
           k == runs[r].k + 1
           n == IF IsZip(runs[r].path) THEN Len(results) ELSE k
           every == IF IsZip(runs[r].path) THEN zipReportEvery
                    ELSE folderReportEvery
       IN /\ runs' = [runs EXCEPT ![r].results = results, ![r].k = k,
                                  ![r].pc = IF k = runs[r].total
                                            THEN "report" ELSE "file"]
          /\ indexingProgress' =
                IF parsed /\ n % every = 0
                THEN onProgress(indexingProgress, n, runs[r].total)
                ELSE indexingProgress
    /\ UNCHANGED <<docs, index, file, savedFrom, upserts, last, mu, gor, arg,
                   cfg, indexingDone, http>>

\* the end of indexZip and indexFolder: onProgress(len(results), total).
\* (Locals that are not read again go back to their zero value.)
IndexPathReturns(r) ==
    /\ runs[r].fn = "indexOfflineDocs" /\ runs[r].pc = "report"
    /\ indexingProgress' =
          onProgress(indexingProgress, Len(runs[r].results), runs[r].total)
    /\ runs' = [runs EXCEPT ![r].pc = "add", ![r].total = 0, ![r].k = 0]
    /\ UNCHANGED <<docs, index, file, savedFrom, upserts, last, mu, gor, arg,
                   cfg, indexingDone, http>>

\* searcher.AddResults(results)
IndexingAddsResults(r) ==
    /\ runs[r].fn = "indexOfflineDocs" /\ runs[r].pc = "add"
    /\ upserts + Len(runs[r].results) <= MaxUpserts
    /\ docs' = AddResultsTo(Engine, runs[r].results).docs
    /\ index' = AddResultsTo(Engine, runs[r].results).index
    /\ upserts' = upserts + Len(runs[r].results)
    /\ last' = Call("AddResults",
                    {runs[r].results[k].URL : k \in DOMAIN runs[r].results},
                    <<>>, 0, NoOutcome, FALSE)
    /\ runs' = [runs EXCEPT ![r].pc = "save", ![r].results = <<>>]
    /\ UNCHANGED <<file, savedFrom, mu, gor, arg, cfg, indexingProgress,
                   indexingDone, http>>

\* searcher.SaveCache(...), of which os.WriteFile writes the whole text or
\* fails before the first byte, its error dropped; cfg.LastDocUpdate and
\* saveConfig (neither is kept here)
IndexingSaves(r, writes) ==
    /\ runs[r].fn = "indexOfflineDocs" /\ runs[r].pc = "save"
    /\ file' = WriteAt(Truncated, 0,
                       IF writes THEN MarshalDocs(docs) ELSE <<>>)
    /\ last' = Call("SaveCache", {}, <<>>, 0, NoOutcome, ~writes)
    /\ savedFrom' = Engine
    /\ runs' = [runs EXCEPT ![r].pc = "full"]
    /\ UNCHANGED <<docs, index, upserts, mu, gor, arg, cfg, indexingProgress,
                   indexingDone, http>>

\* atomic.StoreInt32(&indexingProgress, 100)
IndexingFull(r) ==
    /\ runs[r].fn = "indexOfflineDocs" /\ runs[r].pc = "full"
    /\ indexingProgress' = 100
    /\ runs' = [runs EXCEPT ![r].pc = "done"]
    /\ UNCHANGED <<docs, index, file, savedFrom, upserts, last, mu, gor, arg,
                   cfg, indexingDone, http>>

\* atomic.StoreInt32(&indexingDone, 1), and the goroutine ends
IndexingEnds(r) ==
    /\ runs[r].fn = "indexOfflineDocs" /\ runs[r].pc = "done"
    /\ indexingDone' = 1
    /\ runs' = [runs EXCEPT ![r] = Returned]
    /\ UNCHANGED <<docs, index, file, savedFrom, upserts, last, mu, gor, arg,
                   cfg, indexingProgress, http>>

\* ----------------------------------------------------------------- inputs

u1 == <<"u","1">>
u2 == <<"u","2">>
u3 == <<"u","3">>

sud == <<"s","u","d">>
suds == <<"s","u","d","s">>
dues == <<"d","u","e","s">>
us == <<"u","s">>
ed == <<"e","d">>

\* Documents handed to AddDoc.  Used, use: titles of stop words only, which
\* hold no token but contain "us" (and "ed").  us as a tag: a term indexed
\* for the slot that is neither in its title nor in its body.
DocPool == {
    Doc(u1, <<"U","s","e","d">>, u1, <<>>, <<>>),
    Doc(u2, <<"u","s","e">>, u2, <<>>, <<>>),
    Doc(u3, <<>>, u3, <<>>, <<us>>),
    Doc(u1, <<>>, u1, sud, <<>>),
    Doc(u2, <<"S","u","d">>, u2, sud, <<>>) }

\* Results handed to AddResults
Result1 == Result(<<>>, u2, sud, Float(One))
Result2 == Result(<<>>, u3, suds \o SP \o dues, Float(One))

ResultBatches == {<<Result1>>, <<Result1, Result2>>}

\* Queries: no text, a stop word, one-character runs, one term, two terms,
\* one term twice
QueryPool == {
    <<>>,
    <<"U","s","e","d">>,
    <<"s"," ","u">>,
    sud,
    us \o SP \o ed,
    us \o SP \o us }

\* 5 is what handleChat passes
TopKs == {-1, 0, 1, 5}

\* ---------------------------------------------------------- specifications

\* the engine in memory: inserts, searches, counts
Next ==
    \/ \E doc \in DocPool : AddDoc(doc)
    \/ \E results \in ResultBatches : AddResults(results)
    \/ \E query \in QueryPool, topK \in TopKs : Search(query, topK)
    \/ GetDocCount

Spec == Init /\ [][Next]_vars

\* the engine with its cache file across restarts
PersistPool == {
    Doc(u1, <<>>, u1, sud, <<>>),
    Doc(u1, <<>>, u1, dues, <<>>),
    Doc(u2, <<>>, u2, sud \o SP \o dues, <<>>) }

PersistBatches == {<<Result1, Result1>>}

PersistQueries == {sud, dues}

NextPersist ==
    \/ \E doc \in PersistPool : AddDoc(doc)
    \/ \E results \in PersistBatches : AddResults(results)
    \/ \E query \in PersistQueries : Search(query, 5)
    \/ GetDocCount
    \/ SaveCache
    \/ LoadCache
    \/ NewEngine

SpecPersist == Init /\ [][NextPersist]_vars

\* scoring: the two documents of the end-to-end scenario, a document that
\* has the term playback as a tag only, and two documents alike but for
\* dues occurring five times in one and once in the other
u4 == <<"u","4">>
u5 == <<"u","5">>

rigidTitle ==
    <<"R","i","g","i","d","b","o","d","y","2","D">>

rigidBody ==
    <<"R","i","g","i","d","b","o","d","y","2","D"," ","i","s"," ",
      "u","s","e","d"," ","f","o","r"," ","2","D"," ","p","h","y",
      "s","i","c","s"," ","m","o","v","e","m","e","n","t",".",".",
      ".">>

audioTitle ==
    <<"A","u","d","i","o">>

audioBody ==
    <<"A","u","d","i","o","S","o","u","r","c","e"," ","p","l","a",
      "y","s"," ","s","o","u","n","d"," ","c","l","i","p","s",".",
      ".",".">>

playback ==
    <<"p","l","a","y","b","a","c","k">>

q2dMovement ==
    <<"2","d"," ","m","o","v","e","m","e","n","t">>

rigid ==
    <<"r","i","g","i","d">>

pla ==
    <<"p","l","a">>

pl ==
    <<"p","l">>

plays ==
    <<"p","l","a","y","s">>

RigidDoc == Doc(u1, rigidTitle, u1, rigidBody, <<>>)

AudioDoc == Doc(u2, audioTitle, u2, audioBody, <<>>)

TagDoc == Doc(u3, <<>>, u3, <<>>, <<playback>>)

FiveDoc ==
    Doc(u4, <<>>, u4,
        dues \o SP \o dues \o SP \o dues \o SP \o dues \o SP \o dues
            \o SP \o sud,
        <<>>)

OnceDoc == Doc(u5, <<>>, u5, dues \o SP \o sud, <<>>)

ScoringPool == {RigidDoc, AudioDoc, TagDoc, FiveDoc, OnceDoc}

ScoringQueries == {q2dMovement, rigid, pla, pl, plays, dues}

NextScoring ==
    \/ \E doc \in ScoringPool : AddDoc(doc)
    \/ \E query \in ScoringQueries : Search(query, 5)

SpecScoring == Init /\ [][NextScoring]_vars

\* the chat handler over an engine that live results fill: a blank message,
\* a term of the live page, a word that only package offline drops (put),
\* a message with a unitySymbols alias, a term of the page that replaces
\* the first at its location
put == <<"p","u","t">>

ChatMessages == {<<>>, SP \o sud \o SP, put, pool, dues}

LivePage == Result(<<>>, u1, put \o SP \o sud, Float(0))

LivePageNow == Result(<<>>, u1, dues, Float(0))

LiveOutcomes ==
    {Live(TRUE, <<>>), Live(FALSE, <<>>), Live(FALSE, <<LivePage>>),
     Live(FALSE, <<LivePageNow>>)}

apiKey == <<"k">>

NextChat ==
    \/ handleChat("GET", TRUE, sud, LiveOutcomes)
    \/ handleChat("POST", FALSE, <<>>, LiveOutcomes)
    \/ \E message \in ChatMessages :
            handleChat("POST", TRUE, message, LiveOutcomes)
    \/ \E r \in RunIds : RunSaveCache(r)
    \/ \E method \in {"POST", "GET", "DELETE"}, key \in {<<>>, apiKey} :
            handleConfig(method, Update(TRUE, key, FALSE, <<>>))
    \/ handleStatus

SpecChat == Init /\ [][NextChat]_vars

\* offline indexing.  main has run: with no path in the configuration it
\* has either detected none and started no indexOfflineDocs, or detected one,
\* stored it and started the first run.
zipPath == <<"a", ".", "Z", "i", "p">>
dirPath == <<"a">>

DocPaths == {zipPath, dirPath}

Pages == <<Result1, Result2, Result1>>

InitIndexing ==
    /\ docs = EmptyEngine.docs
    /\ index = EmptyEngine.index
    /\ file = NoFile
    /\ savedFrom = EmptyEngine
    /\ upserts = 0
    /\ last = [op |-> "NewEngine", urls |-> {}, query |-> <<>>, topK |-> 0,
               out |-> NoOutcome, err |-> FALSE, countBefore |-> 0,
               before |-> {}, fresh |-> TRUE]
    /\ mu = Unlocked
    /\ gor = [p \in Procs |-> Idle]
    /\ arg = <<>>
    /\ indexingProgress = 0
    /\ indexingDone = 0
    /\ http = NoExchange
    /\ \E detected \in {<<>>, zipPath} :
          /\ cfg = Config(<<>>, detected)
          /\ runs = [r \in RunIds |->
                        IF detected # <<>> /\ r = "r1"
                        THEN Run("indexOfflineDocs", "start", detected)
                        ELSE NotStarted]

NextIndexing ==
    \/ \E bodyPath \in {<<>>, dirPath}, detected \in {<<>>, zipPath} :
          handleIndexOffline(bodyPath, detected)
    \/ \E path \in DocPaths \cup {<<>>} :
          handleConfig("POST", Update(FALSE, <<>>, TRUE, path))
    \/ handleConfig("GET", Update(FALSE, <<>>, FALSE, <<>>))
    \/ handleStatus
    \/ \E r \in RunIds : IndexingBegins(r)
    \/ \E r \in RunIds : IndexingResets(r)
    \/ \E r \in RunIds, opens \in BOOLEAN, total \in 0..MaxPages :
          IndexPathOpens(r, opens, total)
    \/ \E r \in RunIds, parsed \in BOOLEAN :
          IndexPathFile(r, Pages[runs[r].k + 1], parsed)
    \/ \E r \in RunIds : IndexPathReturns(r)
    \/ \E r \in RunIds : IndexingAddsResults(r)
    \/ \E r \in RunIds : IndexingSaves(r, TRUE)
    \/ \E r \in RunIds : IndexingFull(r)
    \/ \E r \in RunIds : IndexingEnds(r)

SpecIndexing == InitIndexing /\ [][NextIndexing]_vars

\* extractExcerpt by itself.  A body is length letters x, a space at every
\* tenth place, with the word Sud written at 0-based offset q1 and the word
\* dues at offset q2 (no word for an offset below 0).
Body(length, q1, q2) ==
    [j \in 1..length |->
        IF q1 >= 0 /\ j > q1 /\ j <= q1 + 3 THEN <<"S","u","d">>[j - q1]
        ELSE IF q2 >= 0 /\ j > q2 /\ j <= q2 + 4 THEN dues[j - q2]
        ELSE IF j % 10 = 0 THEN " " ELSE "x"]

\* body lengths: empty, shorter than a window, one window, and for each
\* k up to MaxWindows the lengths around the one where window k is reached
BodyLengths ==
    {0, 3, windowSize, windowSize + 1}
    \cup {windowSize + k * windowStep + d : k \in 1..MaxWindows, d \in {0, 1}}

\* the offsets of the words: none, the start, the end of window 0 and
\* beyond it, the end of the body
ExcerptInputs ==
    UNION {
        {[content |-> Body(length, q1, q2), tokens |-> tokens,
          maxLen |-> excerptMaxLen] :
            q1 \in {q \in {-1, 0, 120, 198, 260} : q + 3 <= length},
            q2 \in {q \in {-1, 204, 220, length - 4} :
                        q + 4 <= length /\ q # 0},
            tokens \in {<<>>, <<sud>>, <<sud, dues>>, <<sud, dues, dues>>}} :
        length \in BodyLengths}

InitExcerpt ==
    /\ docs = EmptyEngine.docs
    /\ index = EmptyEngine.index
    /\ file = NoFile
    /\ savedFrom = EmptyEngine
    /\ upserts = 0
    /\ last = [op |-> "NewEngine", urls |-> {}, query |-> <<>>, topK |-> 0,
               out |-> NoOutcome, err |-> FALSE, countBefore |-> 0,
               before |-> {}, fresh |-> TRUE]
    /\ mu = Unlocked
    /\ gor = [p \in Procs |-> Idle]
    /\ arg \in ExcerptInputs
    /\ ServerInit

NextExcerpt == Excerpt

SpecExcerpt == InitExcerpt /\ [][NextExcerpt]_vars

\* tokenize by itself, on every text of up to MaxTextLen runes: a lower and
\* an upper case letter (an, a: stop words), a letter of two bytes, a digit,
\* two separators
TextRunes == {"a", "N", "é", "1", " ", "-"}

Texts == UNION {[1..n -> TextRunes] : n \in 0..MaxTextLen}

InitTokenize ==
    /\ docs = EmptyEngine.docs
    /\ index = EmptyEngine.index
    /\ file = NoFile
    /\ savedFrom = EmptyEngine
    /\ upserts = 0
    /\ last = [op |-> "NewEngine", urls |-> {}, query |-> <<>>, topK |-> 0,
               out |-> NoOutcome, err |-> FALSE, countBefore |-> 0,
               before |-> {}, fresh |-> TRUE]
    /\ mu = Unlocked
    /\ gor = [p \in Procs |-> Idle]
    /\ arg \in Texts
    /\ ServerInit

NextTokenize ==
    \/ Tokenize
    \/ TokenizeJoined

SpecTokenize == InitTokenize /\ [][NextTokenize]_vars

\* the engine under concurrent callers, started with or without the cache
\* file an earlier run saved
ConcCache == <<Doc(u1, <<>>, u1, sud, <<>>), Doc(u2, <<>>, u2, dues, <<>>)>>

ConcPool == {Doc(u1, <<>>, u1, dues, <<>>), Doc(u3, <<>>, u3, sud, <<>>)}

Readers == {"DocCount", "Search", "SaveCache"}

InitConc ==
    /\ docs = EmptyEngine.docs
    /\ index = EmptyEngine.index
    /\ savedFrom \in {EmptyEngine, AddDocsTo(EmptyEngine, ConcCache)}
    /\ file = IF savedFrom = EmptyEngine THEN NoFile ELSE Marshal(savedFrom)
    /\ upserts = 0
    /\ last = [op |-> "NewEngine", urls |-> {}, query |-> <<>>, topK |-> 0,
               out |-> NoOutcome, err |-> FALSE, countBefore |-> 0,
               before |-> {}, fresh |-> TRUE]
    /\ mu = Unlocked
    /\ gor = [p \in Procs |-> Idle]
    /\ arg = <<>>
    /\ ServerInit

NextConc ==
    \E p \in Procs :
        \/ \E doc \in ConcPool : AddDocLock(p, doc)
        \/ AddDocStore(p)
        \/ AddDocReindex(p)
        \/ AddDocUnlock(p)
        \/ \E op \in Readers : RLock(p, op)
        \/ DocCountReturn(p)
        \/ SearchReturn(p, sud, 5)
        \/ SaveCacheMarshal(p)
        \/ SaveCacheOpen(p)
        \/ SaveCacheWrite(p)
        \/ SaveCacheReturn(p)
        \/ LoadCacheRead(p)
        \/ LoadCacheAddDoc(p)
        \/ LoadCacheReturn(p)

SpecConc == InitConc /\ [][NextConc]_vars

\* ----------------------------------------------------------------- claims

Upserting == {"AddDoc", "AddResults", "LoadCache"}

\* C1: no two stored documents share a location, and every call of AddDoc,
\* AddResults or LoadCache raises DocCount by exactly the number of distinct
\* locations it upserts that were not stored before: by 0 for a stored
\* location, by 1 for a new one, never by 2 for the same location twice,
\* and never below the count before.
C1_DedupByLocation ==
    /\ \A i, j \in DOMAIN docs : docs[i].URL = docs[j].URL => i = j
    /\ last.op \in Upserting =>
          Len(docs) = last.countBefore + Cardinality(last.urls \ last.before)

\* C1 witness: an AddDoc of a stored location on an engine of two documents,
\* after SaveCache has written the cache file
C1_Witness ==
    /\ last.op = "AddDoc"
    /\ last.urls \subseteq last.before
    /\ Len(docs) = 2
    /\ file.exists

\* C2: no term's postings list holds the same slot twice.
C2_NoDuplicatePostings ==
    \A t \in DOMAIN index :
        \A i, j \in DOMAIN index[t] : index[t][i] = index[t][j] => i = j

\* the terms of the document now stored in 0-based slot i
SlotTerms(i) == Range(tokenize(Combined(docs[i + 1])))

\* C3: slot i is in the postings list of term t exactly if t is a token of
\* the title + body + tags text of the document stored in slot i.
C3_PostingsMatchContent ==
    \A i \in 0..(Len(docs) - 1) :
        \A t \in DOMAIN index \cup SlotTerms(i) :
            (i \in Range(Postings(index, t))) <=> (t \in SlotTerms(i))

\* the scores of the results the last Search returned
ResultScores == {last.out.results[k].Score : k \in DOMAIN last.out.results}

\* C4: a non-empty Search result has 1.0 as its largest score and a smallest
\* score above 0.0.
C4_NormalizationBound ==
    (last.op = "Search" /\ Len(last.out.results) > 0) =>
        /\ Float(One) \in ResultScores
        /\ \A x \in ResultScores : FGt(x, Float(0)) /\ ~FGt(x, Float(One))

\* C5: every score of a Search result lies in [0, 1].
C5_ScoreInUnitInterval ==
    last.op = "Search" =>
        \A x \in ResultScores : ~x.nan /\ 0 <= x.v /\ x.v <= One

\* C6: Search returns at most topK results, and no candidate has a raw
\* score below that of a candidate ranked after it.
C6_TopKDescending ==
    (last.op = "Search" /\ ~last.out.panicked) =>
        /\ last.topK >= 0 => Len(last.out.results) <= last.topK
        /\ \A k \in DOMAIN last.out.results :
              last.out.results[k].URL = docs[last.out.ranked[k].idx + 1].URL
        /\ \A i, j \in DOMAIN last.out.ranked :
              i < j => ~FGt(last.out.ranked[j].score, last.out.ranked[i].score)

\* C7: of two candidates with the same raw score, Search lists the one in
\* the lower slot first (so the ranking is a function of engine and query).
C7_TiesBySlotOrder ==
    last.op = "Search" =>
        \A i, j \in DOMAIN last.out.ranked :
            (/\ i < j
             /\ ~last.out.ranked[i].score.nan
             /\ last.out.ranked[i].score = last.out.ranked[j].score)
                => last.out.ranked[i].idx < last.out.ranked[j].idx

\* C8: Search on an engine without documents, or with a query that holds no
\* token, returns an empty list and does not panic, whatever topK is.
C8_EmptyInputsGiveEmptyResult ==
    (last.op = "Search"
        /\ (last.countBefore = 0 \/ Len(tokenize(last.query)) = 0)) =>
        ~last.out.panicked /\ Len(last.out.results) = 0

\* C8 witness: a query of one-character runs only, on an engine holding
\* documents, with a negative topK
C8_Witness ==
    /\ last.op = "Search"
    /\ last.countBefore > 0
    /\ last.query = <<"s"," ","u">>
    /\ Len(tokenize(last.query)) = 0
    /\ last.topK < 0
    /\ Len(last.out.results) = 0

\* C9: no call panics.
C9_NoPanic == ~last.out.panicked

\* the location Search(query, 5) can rank first on engine e (<<>>: none)
Top1(e, query) ==
    {IF Len(o.results) = 0 THEN <<>> ELSE o.results[1].URL :
        o \in SearchOutcomes(e, query, 5)}

\* C10: an engine loaded into a fresh engine from the file SaveCache wrote
\* has the DocCount of the engine that was saved and, for every query, the
\* same top-1 location.
C10_RoundTrip ==
    (last.op = "LoadCache" /\ last.fresh /\ ~last.err
        /\ file = Marshal(savedFrom)) =>
        /\ Len(docs) = Len(savedFrom.docs)
        /\ \A q \in PersistQueries : Top1(Engine, q) = Top1(savedFrom, q)

\* C11: a LoadCache of a file that is missing, unreadable or not one whole
\* cacheFile text returns an error and leaves docs and index exactly as they
\* were before the call.
C11_FailedLoadChangesNothing ==
    [][(last'.op = "LoadCache" /\ (~file.exists \/ ~Decodes(file.data)))
          => (last'.err /\ docs' = docs /\ index' = index)]_vars

\* C11 witness: LoadCache has returned an error on a file that exists and
\* holds, in a text cut short, a document the engine does not store
C11_Witness ==
    /\ last.op = "LoadCache"
    /\ last.err
    /\ file.exists
    /\ \E k \in DOMAIN file.data :
          /\ file.data[k].kind = "doc"
          /\ UnmarshalDoc(file.data[k].obj).URL \notin Locations(docs)

\* a LoadCache that has added some of the documents of its file, not all
HalfLoaded(q) ==
    /\ gor[q].op = "LoadCache"
    /\ gor[q].pc # "idle"
    /\ 0 < gor[q].k
    /\ gor[q].k < Len(gor[q].cf)

\* C12: no DocCount, Search or SaveCache holds the read lock, and so reads
\* the engine, while a LoadCache has added some but not all of its
\* documents.
C12_LoadIsSerialized ==
    \A p \in Procs : p \in mu.readers => \A q \in Procs : ~HalfLoaded(q)

\* every term of every stored document has the document's slot in its
\* postings list
FullyIndexed ==
    \A i \in 0..(Len(docs) - 1) :
        \A t \in SlotTerms(i) : i \in Range(Postings(index, t))

\* C13: while a DocCount, Search or SaveCache holds the read lock no AddDoc
\* holds the write lock or stands between its first and its last change,
\* and every stored slot is indexed under all terms of its document.
C13_ReadersExcludeUpsert ==
    mu.readers # {} =>
        /\ mu.writer = "none"
        /\ \A q \in Procs : gor[q].pc \notin {"store", "reindex", "unlock"}
        /\ FullyIndexed

\* C13 witness: a Search and a SaveCache hold the read lock at the same
\* time, after an AddDoc has replaced a stored document
C13_Witness ==
    /\ \E p, q \in mu.readers : gor[p].op = "Search" /\ gor[q].op = "SaveCache"
    /\ mu.writer = "none"
    /\ upserts > Len(docs)
    /\ Len(docs) > 0

SaveRunning == \E p \in Procs : gor[p].op = "SaveCache" /\ gor[p].pc # "idle"

C15_UpsertFrame ==
    [][\A doc \in DocPool :
          AddDoc(doc) =>
              LET i == SlotOf(docs, doc.URL) IN
              IF i >= 0
              THEN /\ Len(docs') = Len(docs)
                   /\ docs'[i + 1] = doc
                   /\ \A j \in DOMAIN docs : j # i + 1 => docs'[j] = docs[j]
                   /\ \A u \in Locations(docs) :
                         SlotOf(docs', u) = SlotOf(docs, u)
                   /\ \A t \in DOMAIN index \cup DOMAIN index' :
                         \A j \in 0..(Len(docs) - 1) :
                             j # i =>
                                 ((j \in Range(Postings(index', t)))
                                     <=> (j \in Range(Postings(index, t))))
              ELSE /\ Len(docs') = Len(docs) + 1
                   /\ docs'[last'.countBefore + 1] = doc
                   /\ SlotOf(docs', doc.URL) = last'.countBefore]_vars

\* C15 witness: an AddDoc has overwritten slot 0 of an engine whose slot 1
\* holds another document with postings of its own
C15_Witness ==
    /\ last.op = "AddDoc"
    /\ last.urls \subseteq last.before
    /\ Len(docs) >= 2
    /\ docs[1].URL \in last.urls
    /\ \E t \in DOMAIN index : 1 \in Range(index[t])

\* C16: tokenize of the tokens that tokenize returned, joined by single
\* spaces, returns the same tokens in the same order.
C16_TokenizeIdempotent ==
    [][(/\ last.op = "tokenize"
        /\ last'.op = "tokenize"
        /\ last'.query = Join(last.out.tokens, SP))
          => last'.out.tokens = last.out.tokens]_vars

\* C16 witness: tokenize has run on the joined tokens of a text that is not
\* that joined text, and returned two tokens
C16_Witness ==
    /\ last.op = "tokenize"
    /\ last.query # arg
    /\ last.query = Join(tokenize(arg), SP)
    /\ Len(last.out.tokens) = 2

IsWordRune(r) == IsLetter(r) \/ IsDigit(r)

\* the maximal runs of letters and digits of text, as <<first, last>>
\* positions
Runs(text) ==
    {r \in (DOMAIN text) \X (DOMAIN text) :
        /\ r[1] <= r[2]
        /\ \A j \in r[1]..r[2] : IsWordRune(text[j])
        /\ r[1] = 1 \/ ~IsWordRune(text[r[1] - 1])
        /\ r[2] = Len(text) \/ ~IsWordRune(text[r[2] + 1])}

\* those of at least 2 characters that are no stop word once lowercased
KeptRuns(text) ==
    {r \in Runs(text) :
        /\ r[2] - r[1] + 1 >= 2
        /\ ToLower(SubSeq(text, r[1], r[2])) \notin stopWords}

\* the kept runs lowercased, in order of occurrence
RunTokens(text) ==
    LET nth(k) == CHOOSE r \in KeptRuns(text) :
                     Cardinality({q \in KeptRuns(text) : q[1] < r[1]}) = k - 1
    IN [k \in 1..Cardinality(KeptRuns(text)) |->
           ToLower(SubSeq(text, nth(k)[1], nth(k)[2]))]

\* C17: tokenize returns, in order and with duplicates, exactly the
\* lowercased maximal runs of letters and digits that are at least 2
\* characters long and no stop word, for every text, and does not panic.
C17_TokensAreKeptRuns ==
    last.op = "tokenize" =>
        ~last.out.panicked /\ last.out.tokens = RunTokens(last.query)

\* C18: on the engine that AddDoc of the Rigidbody2D document and AddDoc of
\* the Audio document leave when called on a new engine, Search("2d
\* movement", 5) returns u1 with score 1.0, and u2 nowhere before u1.
C18_EndToEndScenario ==
    (/\ last.op = "Search"
     /\ last.query = q2dMovement
     /\ last.topK = 5
     /\ Engine = AddDocsTo(EmptyEngine, <<RigidDoc, AudioDoc>>)) =>
        /\ ~last.out.panicked
        /\ \E i \in DOMAIN last.out.results :
              /\ last.out.results[i].URL = u1
              /\ last.out.results[i].Score = Float(One)
              /\ \A j \in DOMAIN last.out.results :
                    last.out.results[j].URL = u2 => i < j

\* C18 witness: that Search has returned on that engine
C18_Witness ==
    /\ last.op = "Search"
    /\ last.query = q2dMovement
    /\ last.topK = 5
    /\ Engine = AddDocsTo(EmptyEngine, <<RigidDoc, AudioDoc>>)
    /\ Len(last.out.results) > 0

\* the sum, over the terms u of a set, of what scoring u with the prefix
\* weight 0.7 adds to slot i when i is in u's postings
RECURSIVE PrefixShare(_, _, _)
PrefixShare(e, terms, i) ==
    IF terms = {} THEN 0
    ELSE LET u == CHOOSE x \in terms : TRUE
         IN (IF i \in Range(e.index[u])
             THEN SlotContribution(e, u, i, boostPrefix).v ELSE 0)
            + PrefixShare(e, terms \ {u}, i)

\* the raw score the prefix rule gives slot i for the one query token t:
\* the term t once with weight 1.0, every longer indexed term that starts
\* with t with weight 0.7 when t has 3 characters or more, and the title
\* bonus
PrefixRuleScore(e, t, i) ==
    (IF i \in Range(Postings(e.index, t))
     THEN SlotContribution(e, t, i, boostExact).v ELSE 0)
    + (IF Len(t) >= 3
       THEN PrefixShare(e, {u \in DOMAIN e.index : u # t /\ HasPrefix(u, t)}, i)
       ELSE 0)
    + (IF Contains(ToLower(e.docs[i + 1].Title), t)
       THEN titleBoost * One ELSE 0)

\* C19: after a Search whose query is one token t, (1) when t has 3
\* characters or more and is not an indexed term, every document in the
\* postings of an indexed term that starts with t is returned with a
\* positive score; (2) every collected raw score is the one the prefix rule
\* gives: t itself once with weight 1.0, longer terms with weight 0.7, and
\* no longer term at all when t is shorter than 3 characters.
C19_PrefixBoost ==
    (last.op = "Search" /\ ~last.out.panicked /\ Len(last.out.tokens) = 1) =>
        LET t == last.out.tokens[1]
        IN /\ (Len(t) >= 3 /\ t \notin DOMAIN index) =>
                 \A u \in DOMAIN index :
                    HasPrefix(u, t) =>
                        \A i \in Range(index[u]) :
                            \E k \in DOMAIN last.out.results :
                                /\ last.out.results[k].URL = docs[i + 1].URL
                                /\ FGt(last.out.results[k].Score, Float(0))
           /\ \A k \in DOMAIN last.out.ranked :
                 last.out.ranked[k].score =
                    Float(PrefixRuleScore(Engine, t, last.out.ranked[k].idx))

\* C20: after a Search for dues on a corpus that holds the document with
\* dues five times and the one, otherwise alike, with dues once, what
\* scoring dues adds to the first is a number at least what it adds to the
\* second, and less than five times that.
C20_SaturatingTf ==
    (last.op = "Search" /\ last.out.tokens = <<dues>>) =>
        \A a, b \in 0..(Len(docs) - 1) :
            (docs[a + 1] = FiveDoc /\ docs[b + 1] = OnceDoc) =>
                LET cA == SlotContribution(Engine, dues, a, boostExact)
                    cB == SlotContribution(Engine, dues, b, boostExact)
                IN /\ ~cA.nan /\ ~cB.nan
                   /\ cA.v >= cB.v
                   /\ cA.v < 5 * cB.v

\* C21: when handleChat has served a message that is not blank, (1) if a
\* local search it made returned a first result with a score above 0.3,
\* its response has the source local_docs, and (2) if it went on to the
\* live search, no result of its local searches has a score above 0.3.
C21_LocalAnswerThreshold ==
    (http.handler = "handleChat" /\ Len(http.found) > 0) =>
        /\ (\E k \in DOMAIN http.found :
               /\ Len(http.found[k]) > 0
               /\ FGt(http.found[k][1].Score, Float(3 * (One \div 10)))) =>
             (\E i \in DOMAIN http.responses :
                 http.responses[i].source = "local_docs")
        /\ "SearchLive" \in Range(http.calls) =>
             \A k \in DOMAIN http.found :
                \A j \in DOMAIN http.found[k] :
                    ~FGt(http.found[k][j].Score, Float(3 * (One \div 10)))

\* C21 witness: a message answered from the index after the search for the
\* raw text, and before it a search that found nothing
C21_Witness ==
    /\ http.handler = "handleChat"
    /\ Len(http.found) = 2
    /\ Len(http.found[1]) = 0
    /\ Len(http.found[2]) > 0
    /\ http.responses = <<ChatReply("local_docs")>>

\* the calls handleChat made come in the order local searches, live
\* search, OpenAI, each only after the one before it gave no answer
InOrder ==
    LET calls == http.calls
        At(name) == {k \in DOMAIN calls : calls[k] = name}
    IN /\ \A k \in At("SearchLive") :
             /\ \E j \in At("Search") : j < k
             /\ \A j \in At("Search") : j < k
             /\ \A i \in DOMAIN http.found : ~Answers(http.found[i])
       /\ \A k \in At("Ask") :
             /\ \E j \in At("SearchLive") : j < k
             /\ http.live.err \/ Len(http.live.results) = 0
             /\ cfg.OpenAIKey # <<>>
       /\ Cardinality(At("SearchLive")) <= 1
       /\ Cardinality(At("Ask")) <= 1

\* one response, with one of the five sources
OneResponse ==
    /\ Len(http.responses) = 1
    /\ http.responses[1].source \in
          {"local_docs", "live_docs", "openai", "not_found", "error"}

\* C22: every request handleChat has served got its calls in order and one
\* response with one of the five sources.
C22_EveryRequest == http.handler = "handleChat" => InOrder /\ OneResponse

\* the scores map of the last Search as collected: slot -> raw score
Collected ==
    [i \in {last.out.ranked[k].idx : k \in DOMAIN last.out.ranked} |->
        (CHOOSE r \in Range(last.out.ranked) : r.idx = i).score]

\* how many tokens of the last Search's token list the lowercased title of
\* slot i contains
TitleTokens(i) ==
    Cardinality({k \in DOMAIN last.out.tokens :
                    Contains(ToLower(docs[i + 1].Title), last.out.tokens[k])})

\* C23: after a Search that scored, for every slot i, with n the number of
\* query tokens its lowercased title contains and "before" the scores the
\* postings gave: if n = 0 the slot is a candidate only if the postings
\* made it one, and its score is the one they gave; if n > 0 the slot is a
\* candidate and its score is that score (0 if none) plus n times 2.0.
C23_TitleBonus ==
    (last.op = "Search" /\ ~last.out.panicked /\ Len(last.out.tokens) > 0
     /\ Len(docs) > 0) =>
        LET before == ScoreTokens(Engine, last.out.tokens, 1, <<>>,
                                  avgDocLen(Engine))
        IN \A i \in 0..(Len(docs) - 1) :
              IF TitleTokens(i) = 0
              THEN /\ i \in DOMAIN Collected <=> i \in DOMAIN before
                   /\ i \in DOMAIN before => Collected[i] = before[i]
              ELSE /\ i \in DOMAIN Collected
                   /\ Collected[i] =
                         FAdd(IF i \in DOMAIN before THEN before[i]
                              ELSE Float(0),
                              Float(TitleTokens(i) * 2 * One))

\* C23 witness: a slot in no postings list of the query whose title holds
\* two of its tokens, next to a slot the postings scored whose title holds
\* none
C23_Witness ==
    /\ last.op = "Search" /\ ~last.out.panicked /\ Len(last.out.tokens) = 2
    /\ \E i, j \in 0..(Len(docs) - 1) :
          /\ TitleTokens(i) = 2
          /\ i \notin DOMAIN ScoreTokens(Engine, last.out.tokens, 1, <<>>,
                                         avgDocLen(Engine))
          /\ TitleTokens(j) = 0
          /\ j \in DOMAIN Collected

\* C24: after a Search of one token, no returned document is one whose
\* slot now holds content the token does not occur in: not a term of its
\* title, body or tags, not a prefix of one, not a substring of its title.
\* (Only a slot whose document was replaced can be in the postings of a
\* term its content does not have.)
C24_NoStaleMatch ==
    (last.op = "Search" /\ ~last.out.panicked /\ Len(last.out.tokens) = 1) =>
        \A i \in 0..(Len(docs) - 1) :
            LET t == last.out.tokens[1]
            IN (/\ \A u \in SlotTerms(i) : ~HasPrefix(u, t)
                /\ ~Contains(ToLower(docs[i + 1].Title), t)) =>
                   \A k \in DOMAIN last.out.results :
                       last.out.results[k].URL # docs[i + 1].URL

\* the larger of two integers
Max(a, b) == IF a >= b THEN a ELSE b

\* C25: after extractExcerpt(content, tokens, maxLen) on a body that is not
\* empty, with p the window position it chose, start = max(0, p - 50) and
\* end = min(len(content), start + maxLen): the excerpt is the trimmed
\* slice content[start:end], with "..." in front exactly when start > 0 and
\* behind exactly when end < len(content).
C25_ExcerptSlice ==
    (last.op = "extractExcerpt" /\ Len(last.query) > 0) =>
        LET p == last.out.ranked[1].idx
            start == Max(0, p - 50)
            end == Min(Len(last.query), start + last.topK)
        IN /\ ~last.out.panicked
           /\ last.out.results[1].Excerpt =
                 (IF start > 0 THEN Dots ELSE <<>>)
                 \o TrimSpace(Slice(last.query, start, end))
                 \o (IF end < Len(last.query) THEN Dots ELSE <<>>)

\* the window positions the loop of extractExcerpt examines
Examined(content) ==
    {i \in 0..Len(content) : i % 50 = 0 /\ i < Len(content) - 200}

\* how many distinct tokens of the list occur in the window at position i
DistinctHits(content, tokens, i) ==
    Cardinality({t \in Range(tokens) :
                    Contains(Slice(ToLower(content), i,
                                   Min(i + 200, Len(content))), t)})

\* C26: the position extractExcerpt chose is the earliest examined window
\* position whose count of distinct query tokens in the window is the
\* largest (position 0 when no window is examined or none holds a token).
C26_DensestWindowFirst ==
    last.op = "extractExcerpt" =>
        LET p == last.out.ranked[1].idx
            content == last.query
            tokens == last.out.tokens
            best == {i \in Examined(content) :
                        /\ DistinctHits(content, tokens, i) > 0
                        /\ \A j \in Examined(content) :
                              DistinctHits(content, tokens, j)
                                  <= DistinctHits(content, tokens, i)}
        IN IF best = {} THEN p = 0
           ELSE p \in best /\ \A i \in best : p <= i

\* C29: after extractExcerpt on a body longer than 200 characters in which
\* some query token occurs, the window at the position it chose holds a
\* query token.
C29_TailIsExamined ==
    (/\ last.op = "extractExcerpt"
     /\ Len(last.query) > 200
     /\ \E t \in Range(last.out.tokens) : Contains(ToLower(last.query), t)) =>
        LET p == last.out.ranked[1].idx
        IN DistinctHits(last.query, last.out.tokens, p) > 0

\* C27: after every Search that reached scoring (a corpus that is not empty,
\* a query with tokens), the average document length the scorer divided by
\* is the total token count of body and title over the number of documents,
\* and it is not zero.
C27_AvgDocLenNotZero ==
    (/\ last.op = "Search"
     /\ Len(docs) > 0
     /\ Len(last.out.tokens) > 0) =>
        /\ avgDocLen(Engine).num = TotalLen(docs)
        /\ avgDocLen(Engine).den = Len(docs)
        /\ avgDocLen(Engine).num # 0

\* C28: in every engine state, for every term, the length of the postings
\* list (the document frequency the scorer uses) is at most the number of
\* documents, and the idf computed from the two is positive.
C28_DfAtMostN ==
    \A t \in DOMAIN index :
        /\ Len(index[t]) <= Len(docs)
        /\ Idf(Len(docs), Len(index[t])) > 0

\* a run of indexOfflineDocs is in progress from its store of 0 into
\* indexingDone until its store of 1
InProgress(r) ==
    runs[r].fn = "indexOfflineDocs" /\ runs[r].pc # "start"

\* a response of /api/status, or of a GET of /api/config, written in this step
Reports ==
    /\ http' # http
    /\ \/ http'.handler = "handleStatus"
       \/ http'.handler = "handleConfig" /\ http'.method = "GET"

\* C30: under every interleaving of indexing runs and requests, when
\* /api/status or /api/config reports indexing_done = true no run of
\* indexOfflineDocs is in progress, and the indexing_progress it reports is
\* in 0..100.
C30_DoneMeansNoRun ==
    [][Reports =>
          /\ http'.responses[1].done => \A r \in RunIds : ~InProgress(r)
          /\ http'.responses[1].progress \in 0..100]_vars

====
